---- MODULE Spec2Model ----
(***************************************************************************)
(* Model of the gridwars capture engine: GridService, EnergyService,       *)
(* RateLimiter, UserService, GameRoundService and the SocketHandler that   *)
(* drives them.                                                            *)
(*                                                                         *)
(* Time is Date.now() in milliseconds (variable now).  Cell ids "x-y" are  *)
(* the pairs <<x, y>>.  The grid variable holds the tiles of a small       *)
(* window of the configured width x height grid: the only tiles a request  *)
(* of the model names.  Every other tile of the real grid is never named,  *)
(* so it stays as initializeGrid left it (unowned, lastCapturedAt 0).      *)
(***************************************************************************)
EXTENDS Integers, Sequences, FiniteSets, TLC

\* ------------------------------------------------------------------ bounds
\* Number of clock advances in one behaviour.
MaxTicks == 3
\* Number of clock advances of the GridService driver.
GridMaxTicks == 2
\* Number of clock advances of the EnergyService driver.
EnergyMaxTicks == 2
\* Number of clock advances of the RateLimiter driver.
RateMaxTicks == 2
\* Width and height of the window of modelled tiles.
WinW == 3
WinH == 2
\* Number of explicit startRound / endRound calls in one behaviour.
MaxExplicit == 2
\* Number of clock advances of the cluster driver.
ClusterMaxTicks == 1
\* Number of clock advances of the shutdown driver before the deadline is set.
ShutMaxTicks == 2
\* Number of rounds the round-cycle specification lets the clock reach.
LiveMaxRounds == 3
\* Number of users in the registry of the leaderboard driver, and their largest
\* capture total.
BoardMaxUsers == 3
BoardMaxPoints == 2
\* Number of values Math.random() is drawn from in a grid of the default size.
ZoneDraws == 3
\* Number of tiles of the grids the cluster search is applied to.
ScanMaxCells == 7
\* Number of clock advances of the snapshot driver.
SnapMaxTicks == 1
\* Number of rounds the round-persistence driver starts.
PersistMaxRounds == 3
\* Date.now() when the process starts (any positive instant).
StartTime == 1000

\* ------------------------------------------------------- program constants
NUM_CORE_ZONES == 8
MinCoreDist == 10
MsPerSecond == 1000
\* The delay of the forced process.exit(1) of gracefulShutdown.
ForcedExitMs == 10000

Null == "null"

VARIABLES
    cfg,        \* constructor arguments of the services (readonly fields)
    now,        \* Date.now()
    ticks,      \* clock advances so far
    grid,       \* GridService.grid (window)
    coreZones,  \* GridService.coreZones (window part)
    energyMap,  \* EnergyService.energyMap
    requests,   \* RateLimiter.requests
    acceptLog,  \* per identity, the times of the isAllowed calls that returned true
    ret,        \* the service call just made directly (component drivers, destroy), and its result
    users,      \* UserService.users, in insertion order
    colorIndex, \* UserService.colorIndex
    factionIndex, \* UserService.factionIndex
    nextId,     \* number of user ids generateUserId has produced, plus one
    db,         \* the players table of the durable store, by username
    conn,       \* per socket: how far its connection / disconnection handler is
    round,      \* GameRoundService: roundNumber, status, startedAt, endsAt, winner
    roundTimer, \* due time of GameRoundService.roundTimer, 0 when null
    startTimers, \* due times of the pending next-round timers, oldest first
    explicitCalls, \* explicit startRound / endRound calls made so far
    roundEndSyncs, \* round states of the onRoundEnd calls awaiting syncAllToDB
    out         \* the events the last handler emitted, in order

handlerVars ==
    <<users, colorIndex, factionIndex, nextId, db, conn, round, roundTimer,
      startTimers, explicitCalls, roundEndSyncs, out>>

vars ==
    <<cfg, now, ticks, grid, coreZones, energyMap, requests, acceptLog, ret,
      users, colorIndex, factionIndex, nextId, db, conn, round, roundTimer,
      startTimers, explicitCalls, roundEndSyncs, out>>

Sockets == {"s1", "s2"}

\* The state the handler variables have in a component driver, which has no
\* SocketHandler: no user, no connection, a GameRoundService never started.
NoHandlerState ==
    /\ users = <<>>
    /\ colorIndex = 0
    /\ factionIndex = 0
    /\ nextId = 1
    /\ db = <<>>
    /\ conn = [s \in Sockets |-> [phase |-> "idle", open |-> FALSE,
                                  username |-> Null, pendingId |-> Null]]
    /\ round = [roundNumber |-> 0, status |-> "waiting", startedAt |-> 0,
                endsAt |-> 0, winner |-> <<>>]
    /\ roundTimer = 0
    /\ startTimers = <<>>
    /\ explicitCalls = 0
    /\ roundEndSyncs = <<>>
    /\ out = <<>>

\* The configuration startServer builds the services with.
DefaultConfig ==
    [gridWidth |-> 100, gridHeight |-> 100, cooldownMs |-> 5000,
     maxEnergy |-> 100, captureCost |-> 5, regenRate |-> 1,
     durationMs |-> 300000, roundCooldownMs |-> 10000,
     maxCapturesPerSecond |-> 10, rateLimitWindowMs |-> 1000]

Min(a, b) == IF a < b THEN a ELSE b
Max(a, b) == IF a > b THEN a ELSE b
Abs(a) == IF a < 0 THEN -a ELSE a
\* Math.ceil(a / b) for b > 0
CeilDiv(a, b) == -((-a) \div b)

\* ==================================================================== Grid
\* The modelled window: columns 13..15 and rows 15..16 with the initial bounds,
\* so that it straddles the core-zone margin of a 100 x 100 grid.
Cells == {<<x, y>> : x \in 13..(12 + WinW), y \in 15..(14 + WinH)}

\* A cell id that is in no grid of the configured size.
InvalidCell(w) == <<w, 0>>

\* generateCoreZones: margin and the rejection test of one candidate.
CoreMargin(w, h) == (Min(w, h) * 15) \div 100

InCoreBand(c, w, h) ==
    /\ c[1] >= CoreMargin(w, h) /\ c[1] < CoreMargin(w, h) + (w - 2 * CoreMargin(w, h))
    /\ c[2] >= CoreMargin(w, h) /\ c[2] < CoreMargin(w, h) + (h - 2 * CoreMargin(w, h))

ManhattanDist(a, b) == Abs(a[1] - b[1]) + Abs(a[2] - b[2])

\* The sets of window tiles generateCoreZones can mark as core.
CorePlacements(w, h) ==
    {S \in SUBSET {c \in Cells : InCoreBand(c, w, h)} :
        /\ Cardinality(S) <= NUM_CORE_ZONES
        /\ \A a \in S, b \in S : a # b => ManhattanDist(a, b) >= MinCoreDist}

initializeGrid(core) ==
    [c \in Cells |->
        [ownerId |-> Null, color |-> Null, lastCapturedAt |-> 0, isCore |-> c \in core]]

\* captureCell with the cooldown test off by one (<= for <).
captureCellLate(g, cellId, userId, userColor, cooldownMs, t) ==
    IF cellId \notin DOMAIN g
    THEN [grid |-> g, success |-> FALSE, reason |-> "Invalid cell ID",
          remaining |-> 0, pointsAwarded |-> 0, isCore |-> FALSE]
    ELSE IF g[cellId].lastCapturedAt # 0 /\ t - g[cellId].lastCapturedAt <= cooldownMs
    THEN [grid |-> g, success |-> FALSE, reason |-> "Cell on cooldown",
          remaining |-> CeilDiv(cooldownMs - (t - g[cellId].lastCapturedAt), MsPerSecond),
          pointsAwarded |-> 0, isCore |-> FALSE]
    ELSE [grid |-> [g EXCEPT ![cellId] =
                      [@ EXCEPT !.ownerId = userId, !.color = userColor,
                                !.lastCapturedAt = t]],
          success |-> TRUE, reason |-> "", remaining |-> 0,
          pointsAwarded |-> IF g[cellId].isCore THEN 5 ELSE 1,
          isCore |-> g[cellId].isCore]

\* captureCell that takes an unknown id for a tile nobody owns yet.
captureCellCreating(g, cellId, userId, userColor, cooldownMs, t) ==
    IF cellId \in DOMAIN g /\ g[cellId].lastCapturedAt # 0
       /\ t - g[cellId].lastCapturedAt < cooldownMs
    THEN [grid |-> g, success |-> FALSE, reason |-> "Cell on cooldown",
          remaining |-> CeilDiv(cooldownMs - (t - g[cellId].lastCapturedAt), MsPerSecond),
          pointsAwarded |-> 0, isCore |-> FALSE]
    ELSE [grid |-> [c \in DOMAIN g \cup {cellId} |->
                      IF c = cellId
                      THEN [ownerId |-> userId, color |-> userColor, lastCapturedAt |-> t,
                            isCore |-> cellId \in DOMAIN g /\ g[cellId].isCore]
                      ELSE g[c]],
          success |-> TRUE, reason |-> "", remaining |-> 0,
          pointsAwarded |-> IF cellId \in DOMAIN g /\ g[cellId].isCore THEN 5 ELSE 1,
          isCore |-> cellId \in DOMAIN g /\ g[cellId].isCore]

\* captureCell without the cooldown test (the last request wins).
captureCellLastWins(g, cellId, userId, userColor, cooldownMs, t) ==
    IF cellId \notin DOMAIN g
    THEN [grid |-> g, success |-> FALSE, reason |-> "Invalid cell ID",
          remaining |-> 0, pointsAwarded |-> 0, isCore |-> FALSE]
    ELSE [grid |-> [g EXCEPT ![cellId] =
                      [@ EXCEPT !.ownerId = userId, !.color = userColor,
                                !.lastCapturedAt = t]],
          success |-> TRUE, reason |-> "", remaining |-> 0,
          pointsAwarded |-> IF g[cellId].isCore THEN 5 ELSE 1,
          isCore |-> g[cellId].isCore]

\* GridService.captureCell at Date.now() = t: the new grid and the CaptureResult.
captureCell(g, cellId, userId, userColor, cooldownMs, t) ==
    IF cellId \notin DOMAIN g
    THEN [grid |-> g, success |-> FALSE, reason |-> "Invalid cell ID",
          remaining |-> 0, pointsAwarded |-> 0, isCore |-> FALSE]
    ELSE IF g[cellId].lastCapturedAt # 0 /\ t - g[cellId].lastCapturedAt < cooldownMs
    THEN [grid |-> g, success |-> FALSE, reason |-> "Cell on cooldown",
          remaining |-> CeilDiv(cooldownMs - (t - g[cellId].lastCapturedAt), MsPerSecond),
          pointsAwarded |-> 0, isCore |-> FALSE]
    ELSE [grid |-> [g EXCEPT ![cellId] =
                      [@ EXCEPT !.ownerId = userId, !.color = userColor,
                                !.lastCapturedAt = t]],
          success |-> TRUE, reason |-> "", remaining |-> 0,
          pointsAwarded |-> IF g[cellId].isCore THEN 5 ELSE 1,
          isCore |-> g[cellId].isCore]

\* ---------------------------------------------------- GridService driver
\* Calls made directly on a GridService, as a unit test would.
GridUsers == {"u1", "u2"}
GridColor(u) == IF u = "u1" THEN "#FF2E63" ELSE "#08D9D6"
GridTestCells == {<<15, 15>>, <<15, 16>>}

GridInit ==
    /\ cfg = DefaultConfig
    /\ now = StartTime
    /\ ticks = 0
    /\ \E core \in CorePlacements(cfg.gridWidth, cfg.gridHeight) :
          /\ coreZones = core
          /\ grid = initializeGrid(core)
    /\ energyMap = <<>>
    /\ requests = <<>>
    /\ acceptLog = <<>>
    /\ ret = [op |-> "new"]
    /\ NoHandlerState

GridCaptureCell ==
    \E c \in GridTestCells \cup {InvalidCell(cfg.gridWidth)}, u \in GridUsers :
        LET r == captureCell(grid, c, u, GridColor(u), cfg.cooldownMs, now) IN
        /\ grid' = r.grid
        /\ ret' = [op |-> "captureCell", cellId |-> c, userId |-> u,
                   success |-> r.success, reason |-> r.reason,
                   pointsAwarded |-> r.pointsAwarded,
                   before |-> IF c \in DOMAIN grid THEN grid[c] ELSE Null]
        /\ UNCHANGED <<cfg, now, ticks, coreZones, energyMap, requests, acceptLog, handlerVars>>

GridResetGrid ==
    /\ \E core \in CorePlacements(cfg.gridWidth, cfg.gridHeight) :
          /\ coreZones' = core
          /\ grid' = initializeGrid(core)
    /\ ret' = [op |-> "resetGrid"]
    /\ UNCHANGED <<cfg, now, ticks, energyMap, requests, acceptLog, handlerVars>>

GridTick ==
    /\ ticks < GridMaxTicks
    /\ \E d \in {1, cfg.cooldownMs - 1, cfg.cooldownMs} : now' = now + d
    /\ ticks' = ticks + 1
    /\ ret' = [op |-> "tick"]
    /\ UNCHANGED <<cfg, grid, coreZones, energyMap, requests, acceptLog, handlerVars>>

GridNext == GridCaptureCell \/ GridResetGrid \/ GridTick

SpecGrid == GridInit /\ [][GridNext]_vars

MapRemove(m, k) == [x \in DOMAIN m \ {k} |-> m[x]]
MapPut(m, k, v) == [x \in DOMAIN m \cup {k} |-> IF x = k THEN v ELSE m[x]]

\* EnergyService.initUserEnergy at Date.now() = t: the new EnergyState.
initUserEnergy(maxEnergy, regenRate, t) ==
    [current |-> maxEnergy, max |-> maxEnergy, regenRate |-> regenRate, lastRegenAt |-> t]

\* regenAmount rounding a started unit up instead of down.
regenAmountCeil(state, t) == CeilDiv((t - state.lastRegenAt) * state.regenRate, MsPerSecond)

\* Math.floor(((t - lastRegenAt) / 1000) * regenRate), for an integer regenRate.
regenAmount(state, t) == ((t - state.lastRegenAt) * state.regenRate) \div MsPerSecond

\* The passive regeneration getEnergy and consumeEnergy apply first.
applyRegen(state, t) ==
    IF regenAmount(state, t) > 0
    THEN [state EXCEPT !.current = Min(state.max, state.current + regenAmount(state, t)),
                       !.lastRegenAt = t]
    ELSE state

\* EnergyService.getEnergy: the new map and the state returned.
getEnergy(em, userId, maxEnergy, regenRate, t) ==
    LET state == IF userId \in DOMAIN em THEN em[userId]
                 ELSE initUserEnergy(maxEnergy, regenRate, t)
        after == applyRegen(state, t)
    IN [map |-> MapPut(em, userId, after), newState |-> after]

\* consumeEnergy without the test for enough energy.
consumeEnergyUnchecked(em, userId, maxEnergy, regenRate, captureCost, t) ==
    IF userId \notin DOMAIN em
    THEN [map |-> MapPut(em, userId, initUserEnergy(maxEnergy, regenRate, t)),
          success |-> FALSE, newState |-> initUserEnergy(maxEnergy, regenRate, t)]
    ELSE LET state == applyRegen(em[userId], t)
             spent == [state EXCEPT !.current = state.current - captureCost,
                                    !.lastRegenAt = t]
         IN [map |-> MapPut(em, userId, spent), success |-> TRUE, newState |-> spent]

\* consumeEnergy that succeeds without deducting the cost.
consumeEnergyFree(em, userId, maxEnergy, regenRate, captureCost, t) ==
    IF userId \notin DOMAIN em
    THEN [map |-> MapPut(em, userId, initUserEnergy(maxEnergy, regenRate, t)),
          success |-> FALSE, newState |-> initUserEnergy(maxEnergy, regenRate, t)]
    ELSE LET state == applyRegen(em[userId], t) IN
         IF state.current < captureCost
         THEN [map |-> MapPut(em, userId, state), success |-> FALSE, newState |-> state]
         ELSE [map |-> MapPut(em, userId, [state EXCEPT !.lastRegenAt = t]),
               success |-> TRUE, newState |-> [state EXCEPT !.lastRegenAt = t]]

\* EnergyService.consumeEnergy: the new map, success and the state returned.
consumeEnergy(em, userId, maxEnergy, regenRate, captureCost, t) ==
    IF userId \notin DOMAIN em
    THEN [map |-> MapPut(em, userId, initUserEnergy(maxEnergy, regenRate, t)),
          success |-> FALSE, newState |-> initUserEnergy(maxEnergy, regenRate, t)]
    ELSE LET state == applyRegen(em[userId], t) IN
         IF state.current < captureCost
         THEN [map |-> MapPut(em, userId, state), success |-> FALSE, newState |-> state]
         ELSE LET spent == [state EXCEPT !.current = state.current - captureCost,
                                         !.lastRegenAt = t]
              IN [map |-> MapPut(em, userId, spent), success |-> TRUE, newState |-> spent]

\* resetAll that only restarts the regeneration clock.
resetAllClockOnly(em, maxEnergy, t) == [u \in DOMAIN em |-> [em[u] EXCEPT !.lastRegenAt = t]]

\* EnergyService.resetAll at Date.now() = t.
resetAll(em, maxEnergy, t) ==
    [u \in DOMAIN em |-> [em[u] EXCEPT !.current = maxEnergy, !.lastRegenAt = t]]

\* -------------------------------------------------- EnergyService driver
EnergyUsers == {"u1", "u2"}

EnergyInit ==
    /\ cfg = DefaultConfig
    /\ now = StartTime
    /\ ticks = 0
    /\ coreZones = {}
    /\ grid = initializeGrid({})
    /\ energyMap = <<>>
    /\ requests = <<>>
    /\ acceptLog = <<>>
    /\ ret = [op |-> "new"]
    /\ NoHandlerState

EnergyInitUser ==
    \E u \in EnergyUsers :
        /\ energyMap' = MapPut(energyMap, u, initUserEnergy(cfg.maxEnergy, cfg.regenRate, now))
        /\ ret' = [op |-> "initUserEnergy", userId |-> u]
        /\ UNCHANGED <<cfg, now, ticks, grid, coreZones, requests, acceptLog, handlerVars>>

EnergyGetEnergy ==
    \E u \in EnergyUsers :
        LET r == getEnergy(energyMap, u, cfg.maxEnergy, cfg.regenRate, now) IN
        /\ energyMap' = r.map
        /\ ret' = [op |-> "getEnergy", userId |-> u]
        /\ UNCHANGED <<cfg, now, ticks, grid, coreZones, requests, acceptLog, handlerVars>>

EnergyConsumeEnergy ==
    \E u \in EnergyUsers :
        LET r == consumeEnergy(energyMap, u, cfg.maxEnergy, cfg.regenRate,
                               cfg.captureCost, now) IN
        /\ energyMap' = r.map
        /\ ret' = [op |-> "consumeEnergy", userId |-> u, success |-> r.success]
        /\ UNCHANGED <<cfg, now, ticks, grid, coreZones, requests, acceptLog, handlerVars>>

EnergyResetAll ==
    /\ energyMap' = resetAll(energyMap, cfg.maxEnergy, now)
    /\ ret' = [op |-> "resetAll"]
    /\ UNCHANGED <<cfg, now, ticks, grid, coreZones, requests, acceptLog, handlerVars>>

EnergyRemoveUser ==
    \E u \in EnergyUsers :
        /\ energyMap' = MapRemove(energyMap, u)
        /\ ret' = [op |-> "removeUser", userId |-> u]
        /\ UNCHANGED <<cfg, now, ticks, grid, coreZones, requests, acceptLog, handlerVars>>

EnergyTick ==
    /\ ticks < EnergyMaxTicks
    /\ \E d \in {600, 7000} : now' = now + d
    /\ ticks' = ticks + 1
    /\ ret' = [op |-> "tick"]
    /\ UNCHANGED <<cfg, grid, coreZones, energyMap, requests, acceptLog, handlerVars>>

EnergyNext ==
    \/ EnergyInitUser \/ EnergyGetEnergy \/ EnergyConsumeEnergy
    \/ EnergyResetAll \/ EnergyRemoveUser \/ EnergyTick

SpecEnergy == EnergyInit /\ [][EnergyNext]_vars

\* C2: for every participant 0 <= energy.current <= energy.max in every state
\* reached by initUserEnergy, getEnergy, consumeEnergy, resetAll and removeUser
\* calls at non-decreasing times.
C2_EnergyInRange ==
    \A u \in DOMAIN energyMap :
        0 <= energyMap[u].current /\ energyMap[u].current <= energyMap[u].max

\* C2 witness: a consumeEnergy call refused for lack of energy, after
\* regeneration had been applied to a drained participant.
C2_Witness ==
    /\ ret.op = "consumeEnergy"
    /\ ret.success = FALSE
    /\ ret.userId \in DOMAIN energyMap
    /\ energyMap[ret.userId].current > 0
    /\ energyMap[ret.userId].current < cfg.captureCost

\* ============================================================= RateLimiter
RateMaxAge == 60000

\* Array.prototype.filter keeping the timestamps younger than age at time t.
YoungerThan(timestamps, age, t) == SelectSeq(timestamps, LAMBDA ts : t - ts < age)

\* isAllowed refusing only above maxRequests (> for >=).
isAllowedOneMore(reqs, userId, maxRequests, windowMs, t) ==
    LET userRequests == IF userId \in DOMAIN reqs THEN reqs[userId] ELSE <<>>
        validRequests == YoungerThan(userRequests, windowMs, t)
    IN IF Len(validRequests) > maxRequests
       THEN [map |-> reqs, allowed |-> FALSE]
       ELSE [map |-> MapPut(reqs, userId, Append(validRequests, t)), allowed |-> TRUE]

\* isAllowed recording the timestamp before the test, so also when it refuses.
isAllowedRecording(reqs, userId, maxRequests, windowMs, t) ==
    LET userRequests == IF userId \in DOMAIN reqs THEN reqs[userId] ELSE <<>>
        validRequests == YoungerThan(userRequests, windowMs, t)
    IN [map |-> MapPut(reqs, userId, Append(validRequests, t)),
        allowed |-> Len(validRequests) < maxRequests]

\* isAllowed answering without recording the call it allows.
isAllowedForgetting(reqs, userId, maxRequests, windowMs, t) ==
    LET userRequests == IF userId \in DOMAIN reqs THEN reqs[userId] ELSE <<>>
        validRequests == YoungerThan(userRequests, windowMs, t)
    IN [map |-> reqs, allowed |-> Len(validRequests) < maxRequests]

\* RateLimiter.isAllowed at Date.now() = t: the new map and the answer.
isAllowed(reqs, userId, maxRequests, windowMs, t) ==
    LET userRequests == IF userId \in DOMAIN reqs THEN reqs[userId] ELSE <<>>
        validRequests == YoungerThan(userRequests, windowMs, t)
    IN IF Len(validRequests) >= maxRequests
       THEN [map |-> reqs, allowed |-> FALSE]
       ELSE [map |-> MapPut(reqs, userId, Append(validRequests, t)), allowed |-> TRUE]

\* RateLimiter.reset
rateReset(reqs, userId) == MapRemove(reqs, userId)

\* cleanup keeping only the timestamps of the current millisecond.
cleanupEager(reqs, t) ==
    LET keep == {u \in DOMAIN reqs : Len(YoungerThan(reqs[u], 1, t)) # 0}
    IN [u \in keep |-> YoungerThan(reqs[u], 1, t)]

\* RateLimiter.cleanup at Date.now() = t.
cleanup(reqs, t) ==
    LET keep == {u \in DOMAIN reqs : Len(YoungerThan(reqs[u], RateMaxAge, t)) # 0}
    IN [u \in keep |-> YoungerThan(reqs[u], RateMaxAge, t)]

\* The log of accepted calls after an isAllowed(userId, ...) call at time t.
LogAccept(log, userId, allowed, t) ==
    IF allowed
    THEN MapPut(log, userId, Append(IF userId \in DOMAIN log THEN log[userId] ELSE <<>>, t))
    ELSE log

\* ---------------------------------------------------- RateLimiter driver
RateUsers == {"u1", "u2"}
\* The (maxRequests, windowMs) arguments the driver passes on every call.
RateConfigs ==
    {[DefaultConfig EXCEPT !.maxCapturesPerSecond = m] : m \in {1, 2}}

RateInit ==
    /\ cfg \in RateConfigs
    /\ now = StartTime
    /\ ticks = 0
    /\ coreZones = {}
    /\ grid = initializeGrid({})
    /\ energyMap = <<>>
    /\ requests = <<>>
    /\ acceptLog = <<>>
    /\ ret = [op |-> "new"]
    /\ NoHandlerState

RateIsAllowed ==
    \E u \in RateUsers :
        LET r == isAllowed(requests, u, cfg.maxCapturesPerSecond,
                           cfg.rateLimitWindowMs, now) IN
        /\ requests' = r.map
        /\ acceptLog' = LogAccept(acceptLog, u, r.allowed, now)
        /\ ret' = [op |-> "isAllowed", userId |-> u, allowed |-> r.allowed]
        /\ UNCHANGED <<cfg, now, ticks, grid, coreZones, energyMap, handlerVars>>

RateCleanup ==
    /\ requests' = cleanup(requests, now)
    /\ ret' = [op |-> "cleanup"]
    /\ UNCHANGED <<cfg, now, ticks, grid, coreZones, energyMap, acceptLog, handlerVars>>

RateTick ==
    /\ ticks < RateMaxTicks
    /\ \E d \in {1, cfg.rateLimitWindowMs - 1, RateMaxAge - 1, RateMaxAge} : now' = now + d
    /\ ticks' = ticks + 1
    /\ ret' = [op |-> "tick"]
    /\ UNCHANGED <<cfg, grid, coreZones, energyMap, requests, acceptLog, handlerVars>>

RateNext == RateIsAllowed \/ RateCleanup \/ RateTick

SpecRate == RateInit /\ [][RateNext]_vars

\* The number of accepted calls of identity u with call time in lo..hi.
AcceptedWithin(u, lo, hi) ==
    Cardinality({i \in 1..Len(acceptLog[u]) : lo <= acceptLog[u][i] /\ acceptLog[u][i] <= hi})

Palette ==
    <<"#FF2E63", "#08D9D6", "#00FFF5", "#FE53BB", "#F5D300",
      "#09FBD3", "#FF6B6B", "#845EC2", "#FF9671", "#00C9A7",
      "#F9F871", "#4ECDC4", "#45B7D1", "#E84393", "#00BBF9">>

FACTIONS ==
    <<"Neon Wolves", "Cyber Syndicate", "Quantum Legion", "Shadow Circuit",
      "Void Collective", "Plasma Hive">>

getRankTier(captures) ==
    IF captures >= 200 THEN "Neon"
    ELSE IF captures >= 100 THEN "Diamond"
    ELSE IF captures >= 50 THEN "Gold"
    ELSE IF captures >= 20 THEN "Silver"
    ELSE "Bronze"

\* Position in us of the user with this id (Map.get), 0 when there is none.
UserIndex(us, userId) ==
    IF \E i \in 1..Len(us) : us[i].id = userId
    THEN CHOOSE i \in 1..Len(us) : us[i].id = userId
    ELSE 0

\* getUserBySocket: position of the first user bound to the socket, 0 when none.
getUserBySocket(us, socketId) ==
    IF \E i \in 1..Len(us) : us[i].socketId = socketId
    THEN CHOOSE i \in 1..Len(us) :
            /\ us[i].socketId = socketId
            /\ \A j \in 1..(i - 1) : us[j].socketId # socketId
    ELSE 0

\* Map.set(user.id, user): an existing key keeps its place, a new one goes last.
UsersSet(us, user) ==
    IF UserIndex(us, user.id) # 0
    THEN [us EXCEPT ![UserIndex(us, user.id)] = user]
    ELSE Append(us, user)

\* Map.delete(userId)
UsersDelete(us, userId) == SelectSeq(us, LAMBDA u : u.id # userId)

updateUserActivity(us, userId, t) ==
    IF UserIndex(us, userId) = 0 THEN us
    ELSE [us EXCEPT ![UserIndex(us, userId)].lastActivity = t]

\* incrementCaptureCount that leaves the round total alone.
incrementCaptureCountLifetimeOnly(us, userId, points) ==
    IF UserIndex(us, userId) = 0
    THEN [users |-> us, newCount |-> 0, rankUp |-> Null, previousRank |-> "Bronze"]
    ELSE LET i == UserIndex(us, userId)
             newCount == us[i].capturesCount + points
             newRank == getRankTier(newCount)
         IN [users |-> [us EXCEPT ![i].capturesCount = newCount,
                                  ![i].streak = us[i].streak + 1,
                                  ![i].rank = newRank],
             newCount |-> newCount,
             rankUp |-> IF newRank # us[i].rank THEN newRank ELSE Null,
             previousRank |-> us[i].rank]

\* UserService.incrementCaptureCount: the new users and the value returned.
incrementCaptureCount(us, userId, points) ==
    IF UserIndex(us, userId) = 0
    THEN [users |-> us, newCount |-> 0, rankUp |-> Null, previousRank |-> "Bronze"]
    ELSE LET i == UserIndex(us, userId)
             newCount == us[i].capturesCount + points
             newRank == getRankTier(newCount)
         IN [users |-> [us EXCEPT ![i].capturesCount = newCount,
                                  ![i].roundCaptures = us[i].roundCaptures + points,
                                  ![i].streak = us[i].streak + 1,
                                  ![i].rank = newRank],
             newCount |-> newCount,
             rankUp |-> IF newRank # us[i].rank THEN newRank ELSE Null,
             previousRank |-> us[i].rank]

resetStreak(us, userId) ==
    IF UserIndex(us, userId) = 0 THEN us
    ELSE [us EXCEPT ![UserIndex(us, userId)].streak = 0]

resetRoundCaptures(us) == [i \in 1..Len(us) |-> [us[i] EXCEPT !.roundCaptures = 0]]

\* A comparator that looks at the round captures only.
LeaderboardCompareRoundOnly(a, b) == b.roundCaptures - a.roundCaptures

\* The comparator of getLeaderboard: a negative value puts a before b.
LeaderboardCompare(a, b) ==
    IF b.roundCaptures - a.roundCaptures # 0
    THEN b.roundCaptures - a.roundCaptures
    ELSE b.capturesCount - a.capturesCount

\* Array.prototype.sort with that comparator (a stable sort): insertion of each
\* element after the last element that does not come after it.
RECURSIVE SortedInsert(_, _)
SortedInsert(sorted, u) ==
    IF sorted = <<>> THEN <<u>>
    ELSE IF LeaderboardCompare(sorted[Len(sorted)], u) <= 0
    THEN Append(sorted, u)
    ELSE Append(SortedInsert(SubSeq(sorted, 1, Len(sorted) - 1), u), sorted[Len(sorted)])

RECURSIVE StableSort(_)
StableSort(us) ==
    IF us = <<>> THEN <<>>
    ELSE SortedInsert(StableSort(SubSeq(us, 1, Len(us) - 1)), us[Len(us)])

\* UserService.getLeaderboard(limit)
getLeaderboard(us, limit) ==
    LET sortedUsers == SubSeq(StableSort(us), 1, Min(limit, Len(us)))
    IN [i \in 1..Len(sortedUsers) |->
          [username |-> sortedUsers[i].username, color |-> sortedUsers[i].color,
           faction |-> sortedUsers[i].faction,
           capturesCount |-> sortedUsers[i].capturesCount,
           roundCaptures |-> sortedUsers[i].roundCaptures,
           streak |-> sortedUsers[i].streak, rank |-> sortedUsers[i].rank,
           position |-> i]]

\* =========================================================== cluster search
\* The neighbours of a cell in its row only.
AdjacentInRow(c) == {<<c[1] - 1, c[2]>>, <<c[1] + 1, c[2]>>}

Adjacent(c) ==
    {<<c[1] - 1, c[2]>>, <<c[1] + 1, c[2]>>, <<c[1], c[2] - 1>>, <<c[1], c[2] + 1>>}

Owned(g, userId) == {c \in DOMAIN g : g[c].ownerId = userId}

\* The cells getConnectedCluster collects from a start cell: the owned cells its
\* flood search reaches through owned neighbours.
RECURSIVE Flood(_, _)
Flood(owned, seen) ==
    LET more == {c \in owned \ seen : Adjacent(c) \cap seen # {}}
    IN IF more = {} THEN seen ELSE Flood(owned, seen \cup more)

\* getConnectedCluster without the walk over neighbours: every owned tile.
getConnectedClusterAll(g, userId, startCellId) == Owned(g, userId)

getConnectedCluster(g, userId, startCellId) ==
    IF startCellId \in Owned(g, userId) THEN Flood(Owned(g, userId), {startCellId}) ELSE {}

\* Map iteration order of the grid: rows first (y outer loop, x inner loop).
IterBefore(a, b) == a[2] < b[2] \/ (a[2] = b[2] /\ a[1] < b[1])

\* The cell of a cluster the iteration over the grid meets first.
FirstCell(cluster) == CHOOSE c \in cluster : \A d \in cluster : c = d \/ IterBefore(c, d)

\* findLargestCluster without the comparison of sizes: the cluster the
\* iteration over the grid meets first.
findLargestClusterFirst(g, userId) ==
    LET clusters == {getConnectedCluster(g, userId, c) : c \in Owned(g, userId)}
    IN IF clusters = {} THEN [size |-> 0, cells |-> {}]
       ELSE LET first == CHOOSE K \in clusters :
                    \A L \in clusters : K = L \/ IterBefore(FirstCell(K), FirstCell(L))
            IN [size |-> Cardinality(first), cells |-> first]

\* GridService.findLargestCluster: the first cluster, in iteration order, that no
\* other cluster exceeds in size.
findLargestCluster(g, userId) ==
    LET clusters == {getConnectedCluster(g, userId, c) : c \in Owned(g, userId)}
        largest == {K \in clusters : \A L \in clusters : Cardinality(L) <= Cardinality(K)}
    IN IF clusters = {} THEN [size |-> 0, cells |-> {}]
       ELSE LET maxCluster == CHOOSE K \in largest :
                    \A L \in largest : K = L \/ IterBefore(FirstCell(K), FirstCell(L))
            IN [size |-> Cardinality(maxCluster), cells |-> maxCluster]

\* ======================================================== GameRoundService
TopPlayersLimit == 5

\* GameRoundService.isActive with the test lost (always active).
isActiveAlways(r) == TRUE

\* isActive that only looks for the state before the first round.
isActiveOnceStarted(r) == r.status # "waiting"

\* GameRoundService.isActive
isActive(r) == r.status = "active"

\* GameRoundService.getState: the RoundState handed to the callbacks.
getState(r, durationMs) ==
    [roundNumber |-> r.roundNumber, status |-> r.status, startedAt |-> r.startedAt,
     endsAt |-> r.endsAt, durationMs |-> durationMs, winner |-> r.winner]

\* startRound counting two rounds at a time.
startRoundStateSkipping(r, durationMs, t) ==
    [roundNumber |-> r.roundNumber + 2, status |-> "active", startedAt |-> t,
     endsAt |-> t + durationMs, winner |-> <<>>]

\* The fields startRound assigns at Date.now() = t.
startRoundState(r, durationMs, t) ==
    [roundNumber |-> r.roundNumber + 1, status |-> "active", startedAt |-> t,
     endsAt |-> t + durationMs, winner |-> <<>>]

\* The fields endRound assigns, given the topPlayers argument (<<>> when the
\* argument is omitted or empty).
endRoundState(r, topPlayers) ==
    [r EXCEPT !.status = "ended",
              !.winner = IF Len(topPlayers) > 0
                         THEN <<[username |-> topPlayers[1].username,
                                 color |-> topPlayers[1].color,
                                 faction |-> topPlayers[1].faction,
                                 score |-> topPlayers[1].roundCaptures]>>
                         ELSE r.winner]

\* =========================================================== SocketHandler
\* Events: to is the socket of socket.emit, or "all" for io.emit.
Everyone == "all"

Activity(type) == [ev |-> "activity_feed", to |-> Everyone, type |-> type]

\* socket.emit('capture_rejected', ...) sent with io.emit instead.
CaptureRejectedToAll(socketId, cellId, reason) ==
    [ev |-> "capture_rejected", to |-> Everyone, cellId |-> cellId, reason |-> reason]

CaptureRejected(socketId, cellId, reason) ==
    [ev |-> "capture_rejected", to |-> socketId, cellId |-> cellId, reason |-> reason]

RateLimited(socketId) == [ev |-> "rate_limited", to |-> socketId]

\* energy_update carrying full energy instead of the state consumeEnergy returned.
EnergyUpdateFull(socketId, state) ==
    [ev |-> "energy_update", to |-> socketId, energy |-> [state EXCEPT !.current = state.max]]

EnergyUpdate(socketId, state) == [ev |-> "energy_update", to |-> socketId, energy |-> state]

LeaderboardUpdate(to, us) ==
    [ev |-> "leaderboard_update", to |-> to, leaderboard |-> getLeaderboard(us, 10)]

\* The success branch with the leaderboard broadcast moved up, before the
\* cluster bonus and the rank-up notice.
CaptureSucceededLeaderboardEarly(socketId, cellId, user, us, cap, energyState) ==
    LET points == IF cap.pointsAwarded # 0 THEN cap.pointsAwarded ELSE 1
        inc == incrementCaptureCount(us, user.id, points)
        cluster == findLargestCluster(cap.grid, user.id)
        hasBonus == cluster.size >= 5 /\ cluster.size % 5 = 0
        bonusPoints == cluster.size \div 5
        withBonus == IF hasBonus
                     THEN incrementCaptureCount(inc.users, user.id, bonusPoints).users
                     ELSE inc.users
    IN [users |-> withBonus,
        out |-> <<[ev |-> "cell_updated", to |-> Everyone, cellId |-> cellId,
                   cell |-> cap.grid[cellId]],
                  EnergyUpdate(socketId, energyState),
                  Activity(IF cap.isCore THEN "core_capture" ELSE "capture"),
                  LeaderboardUpdate(Everyone, inc.users)>>
                \o (IF hasBonus
                    THEN <<[ev |-> "cluster_bonus", to |-> Everyone, userId |-> user.id,
                            clusterSize |-> cluster.size, bonusPoints |-> bonusPoints],
                           Activity("cluster_bonus")>>
                    ELSE <<>>)
                \o (IF inc.rankUp # Null
                    THEN <<[ev |-> "rank_up", to |-> Everyone, username |-> user.username,
                            newRank |-> inc.rankUp, previousRank |-> inc.previousRank],
                           Activity("rank_up")>>
                    ELSE <<>>)]

\* The success branch of handleCaptureRequest, after captureCell succeeded: the
\* new users and the events emitted.
CaptureSucceeded(socketId, cellId, user, us, cap, energyState) ==
    LET points == IF cap.pointsAwarded # 0 THEN cap.pointsAwarded ELSE 1
        inc == incrementCaptureCount(us, user.id, points)
        cluster == findLargestCluster(cap.grid, user.id)
        hasBonus == cluster.size >= 5 /\ cluster.size % 5 = 0
        bonusPoints == cluster.size \div 5
        withBonus == IF hasBonus
                     THEN incrementCaptureCount(inc.users, user.id, bonusPoints).users
                     ELSE inc.users
    IN [users |-> withBonus,
        out |-> <<[ev |-> "cell_updated", to |-> Everyone, cellId |-> cellId,
                   cell |-> cap.grid[cellId]],
                  EnergyUpdate(socketId, energyState),
                  Activity(IF cap.isCore THEN "core_capture" ELSE "capture")>>
                \o (IF hasBonus
                    THEN <<[ev |-> "cluster_bonus", to |-> Everyone, userId |-> user.id,
                            clusterSize |-> cluster.size, bonusPoints |-> bonusPoints],
                           Activity("cluster_bonus")>>
                    ELSE <<>>)
                \o (IF inc.rankUp # Null
                    THEN <<[ev |-> "rank_up", to |-> Everyone, username |-> user.username,
                            newRank |-> inc.rankUp, previousRank |-> inc.previousRank],
                           Activity("rank_up")>>
                    ELSE <<>>)
                \o <<LeaderboardUpdate(Everyone, withBonus)>>]

\* SocketHandler.handleCaptureRequest(socket, {cellId}) at Date.now() = now: the
\* state it leaves and the events it emits.
handleCaptureRequest(socketId, cellId) ==
    LET i == getUserBySocket(users, socketId)
        same == [users |-> users, requests |-> requests, energyMap |-> energyMap,
                 grid |-> grid]
    IN
    IF i = 0
    THEN same @@ [out |-> <<CaptureRejected(socketId, cellId, "User not found")>>]
    ELSE IF ~isActive(round)
    THEN same @@ [out |-> <<CaptureRejected(socketId, cellId,
                                            "Round not active. Wait for next round!")>>]
    ELSE
    LET user == users[i]
        rate == isAllowed(requests, user.id, cfg.maxCapturesPerSecond,
                          cfg.rateLimitWindowMs, now)
    IN
    IF ~rate.allowed
    THEN [same EXCEPT !.requests = rate.map] @@ [out |-> <<RateLimited(socketId)>>]
    ELSE
    LET energyResult == consumeEnergy(energyMap, user.id, cfg.maxEnergy, cfg.regenRate,
                                      cfg.captureCost, now)
    IN
    IF ~energyResult.success
    THEN [same EXCEPT !.requests = rate.map, !.energyMap = energyResult.map] @@
         [out |-> <<CaptureRejected(socketId, cellId, "Not enough energy!"),
                    EnergyUpdate(socketId, energyResult.newState)>>]
    ELSE
    LET active == updateUserActivity(users, user.id, now)
        result == captureCell(grid, cellId, user.id, user.color, cfg.cooldownMs, now)
    IN
    IF result.success
    THEN LET done == CaptureSucceeded(socketId, cellId, user, active, result,
                                      energyResult.newState)
         IN [users |-> done.users, requests |-> rate.map,
             energyMap |-> energyResult.map, grid |-> result.grid, out |-> done.out]
    ELSE [users |-> active, requests |-> rate.map, energyMap |-> energyResult.map,
          grid |-> grid,
          out |-> <<CaptureRejected(socketId, cellId, result.reason)>>]

\* ------------------------------------------------------------- event loop
Range(f) == {f[i] : i \in DOMAIN f}

\* The due times of the timers that have not fired.
PendingTimers == (IF roundTimer # 0 THEN {roundTimer} ELSE {}) \cup Range(startTimers)

\* A timer whose due time has come.  The event loop runs the due timers before
\* it polls for socket events and settled queries, so the handlers of those
\* wait for it.
TimerDue == \E t \in PendingTimers : t <= now

\* ------------------------------------------------------------ registration
\* generateUserId: the n-th id produced.
generateUserId(n) == "user_" \o ToString(n)

\* A row of the players table.
PlayerRow(user) ==
    [id |-> user.id, username |-> user.username, color |-> user.color,
     faction |-> user.faction, rank |-> user.rank, total_captures |-> user.capturesCount]

\* registerUser, existing player: the User restored from the row.
RestoredUser(row, socketId, t) ==
    [id |-> row.id, socketId |-> socketId, username |-> row.username,
     color |-> row.color, faction |-> row.faction, capturesCount |-> row.total_captures,
     roundCaptures |-> 0, streak |-> 0, rank |-> row.rank, lastActivity |-> t]

\* registerUser, new player: the User created.
NewUser(socketId, username, t) ==
    [id |-> generateUserId(nextId), socketId |-> socketId, username |-> username,
     color |-> Palette[colorIndex + 1], faction |-> FACTIONS[factionIndex + 1],
     capturesCount |-> 0, roundCaptures |-> 0, streak |-> 0, rank |-> "Bronze",
     lastActivity |-> t]

\* syncPlayerToDB: UPDATE players SET rank, total_captures WHERE id = user.id
syncPlayerToDB(table, user) ==
    [n \in DOMAIN table |->
        IF table[n].id = user.id
        THEN [table[n] EXCEPT !.rank = user.rank, !.total_captures = user.capturesCount]
        ELSE table[n]]

RECURSIVE syncAllToDB(_, _)
syncAllToDB(table, us) ==
    IF us = <<>> THEN table
    ELSE syncAllToDB(syncPlayerToDB(table, us[1]), SubSeq(us, 2, Len(us)))

\* A socket connects: handleConnection starts and awaits registerUser's lookup.
Connect(s) ==
    /\ ~TimerDue
    /\ round.roundNumber >= 1
    /\ s \in cfg.sockets
    /\ conn[s].phase = "idle"
    /\ \E name \in cfg.names[s] :
          conn' = [conn EXCEPT ![s] = [phase |-> "lookup", open |-> TRUE,
                                       username |-> name, pendingId |-> Null]]
    /\ out' = <<>>
    /\ UNCHANGED <<cfg, now, ticks, grid, coreZones, energyMap, requests, acceptLog, ret,
                   users, colorIndex, factionIndex, nextId, db, round, roundTimer,
                   startTimers, explicitCalls, roundEndSyncs>>

\* registerUser's new-player branch up to its INSERT.
CreateNewPlayer(s) ==
    /\ users' = UsersSet(users, NewUser(s, conn[s].username, now))
    /\ colorIndex' = (colorIndex + 1) % Len(Palette)
    /\ factionIndex' = (factionIndex + 1) % Len(FACTIONS)
    /\ nextId' = nextId + 1
    /\ conn' = [conn EXCEPT ![s].phase = "insert", ![s].pendingId = generateUserId(nextId)]

\* The SELECT of registerUser returns (ok) or throws.
LookupReturns(s) ==
    /\ ~TimerDue
    /\ conn[s].phase = "lookup"
    /\ \E ok \in cfg.dbOutcomes :
          IF ok /\ conn[s].username \in DOMAIN db
          THEN /\ users' = UsersSet(users, RestoredUser(db[conn[s].username], s, now))
               /\ conn' = [conn EXCEPT ![s].phase = "touch",
                                       ![s].pendingId = db[conn[s].username].id]
               /\ UNCHANGED <<colorIndex, factionIndex, nextId>>
          ELSE CreateNewPlayer(s)
    /\ out' = <<>>
    /\ UNCHANGED <<cfg, now, ticks, grid, coreZones, energyMap, requests, acceptLog, ret,
                   db, round, roundTimer, startTimers, explicitCalls, roundEndSyncs>>

\* The rest of handleConnection once registerUser has returned the user.
Welcome(s, userId) ==
    /\ energyMap' = MapPut(energyMap, userId,
                           initUserEnergy(cfg.maxEnergy, cfg.regenRate, now))
    /\ conn' = [conn EXCEPT ![s].phase = "ready"]
    /\ out' = IF conn[s].open
              THEN <<[ev |-> "welcome", to |-> s, userId |-> userId],
                     [ev |-> "full_sync", to |-> s],
                     [ev |-> "user_connected", to |-> Everyone, userId |-> userId,
                      onlineCount |-> Len(users)],
                     LeaderboardUpdate(s, users),
                     [ev |-> "round_update", to |-> s, round |-> getState(round, cfg.durationMs)]>>
              ELSE <<[ev |-> "user_connected", to |-> Everyone, userId |-> userId,
                      onlineCount |-> Len(users)]>>

\* The UPDATE last_seen_at of a restored player returns, or throws into the
\* catch, after which registerUser goes on to create a new player.
TouchReturns(s) ==
    /\ ~TimerDue
    /\ conn[s].phase = "touch"
    /\ \E ok \in cfg.dbOutcomes :
          IF ok
          THEN /\ Welcome(s, conn[s].pendingId)
               /\ UNCHANGED <<users, colorIndex, factionIndex, nextId>>
          ELSE /\ CreateNewPlayer(s)
               /\ out' = <<>>
               /\ UNCHANGED energyMap
    /\ UNCHANGED <<cfg, now, ticks, grid, coreZones, requests, acceptLog, ret,
                   db, round, roundTimer, startTimers, explicitCalls, roundEndSyncs>>

\* The INSERT of a new player returns or throws; handleConnection goes on.
InsertReturns(s) ==
    /\ ~TimerDue
    /\ conn[s].phase = "insert"
    /\ \E ok \in cfg.dbOutcomes :
          db' = IF ok /\ conn[s].username \notin DOMAIN db
                     /\ UserIndex(users, conn[s].pendingId) # 0
                THEN MapPut(db, conn[s].username,
                            [PlayerRow(users[UserIndex(users, conn[s].pendingId)])
                                EXCEPT !.rank = "Bronze", !.total_captures = 0])
                ELSE db
    /\ Welcome(s, conn[s].pendingId)
    /\ UNCHANGED <<cfg, now, ticks, grid, coreZones, requests, acceptLog, ret,
                   users, colorIndex, factionIndex, nextId, round, roundTimer,
                   startTimers, explicitCalls, roundEndSyncs>>

\* Disconnect that also releases the tiles of the participant who leaves.
DisconnectReleasingTiles(s) ==
    /\ ~TimerDue
    /\ conn[s].open
    /\ conn[s].phase \in {"lookup", "touch", "insert", "ready"}
    /\ conn' = IF conn[s].phase # "ready"
               THEN [conn EXCEPT ![s].open = FALSE]
               ELSE IF getUserBySocket(users, s) = 0
               THEN [conn EXCEPT ![s].open = FALSE, ![s].phase = "closed"]
               ELSE [conn EXCEPT ![s].open = FALSE, ![s].phase = "flush",
                                 ![s].pendingId = users[getUserBySocket(users, s)].id]
    /\ \E ok \in cfg.dbOutcomes :
          db' = IF ok /\ conn[s].phase = "ready" /\ getUserBySocket(users, s) # 0
                THEN syncPlayerToDB(db, users[getUserBySocket(users, s)])
                ELSE db
    /\ grid' = IF conn[s].phase = "ready" /\ getUserBySocket(users, s) # 0
               THEN [c \in DOMAIN grid |->
                       IF grid[c].ownerId = users[getUserBySocket(users, s)].id
                       THEN [grid[c] EXCEPT !.ownerId = Null, !.color = Null,
                                            !.lastCapturedAt = 0]
                       ELSE grid[c]]
               ELSE grid
    /\ out' = <<>>
    /\ UNCHANGED <<cfg, now, ticks, coreZones, energyMap, requests, acceptLog, ret,
                   users, colorIndex, factionIndex, nextId, round, roundTimer,
                   startTimers, explicitCalls, roundEndSyncs>>

\* The socket closes.  With the listeners attached handleDisconnection runs up to
\* the await of syncPlayerToDB; before that nothing listens for the disconnect.
Disconnect(s) ==
    /\ ~TimerDue
    /\ conn[s].open
    /\ conn[s].phase \in {"lookup", "touch", "insert", "ready"}
    /\ conn' = IF conn[s].phase # "ready"
               THEN [conn EXCEPT ![s].open = FALSE]
               ELSE IF getUserBySocket(users, s) = 0
               THEN [conn EXCEPT ![s].open = FALSE, ![s].phase = "closed"]
               ELSE [conn EXCEPT ![s].open = FALSE, ![s].phase = "flush",
                                 ![s].pendingId = users[getUserBySocket(users, s)].id]
    /\ \E ok \in cfg.dbOutcomes :
          db' = IF ok /\ conn[s].phase = "ready" /\ getUserBySocket(users, s) # 0
                THEN syncPlayerToDB(db, users[getUserBySocket(users, s)])
                ELSE db
    /\ out' = <<>>
    /\ UNCHANGED <<cfg, now, ticks, grid, coreZones, energyMap, requests, acceptLog, ret,
                   users, colorIndex, factionIndex, nextId, round, roundTimer,
                   startTimers, explicitCalls, roundEndSyncs>>

\* syncPlayerToDB has settled: disconnectUser deletes the user and
\* handleDisconnection goes on.
FlushReturns(s) ==
    /\ ~TimerDue
    /\ conn[s].phase = "flush"
    /\ users' = UsersDelete(users, conn[s].pendingId)
    /\ energyMap' = MapRemove(energyMap, conn[s].pendingId)
    /\ conn' = [conn EXCEPT ![s].phase = "closed"]
    /\ out' = <<[ev |-> "user_disconnected", to |-> Everyone, userId |-> conn[s].pendingId,
                 onlineCount |-> Len(UsersDelete(users, conn[s].pendingId))],
                LeaderboardUpdate(Everyone, UsersDelete(users, conn[s].pendingId))>>
    /\ UNCHANGED <<cfg, now, ticks, grid, coreZones, requests, acceptLog, ret,
                   colorIndex, factionIndex, nextId, db, round, roundTimer,
                   startTimers, explicitCalls, roundEndSyncs>>

\* --------------------------------------------------------- capture request
Capture(s) ==
    /\ ~TimerDue
    /\ conn[s].phase = "ready"
    /\ conn[s].open
    /\ \E c \in cfg.clicks[s] :
          LET h == handleCaptureRequest(s, c) IN
          /\ users' = h.users
          /\ requests' = h.requests
          /\ energyMap' = h.energyMap
          /\ grid' = h.grid
          /\ out' = h.out
    /\ UNCHANGED <<cfg, now, ticks, coreZones, acceptLog, ret, colorIndex, factionIndex,
                   nextId, db, conn, round, roundTimer, startTimers, explicitCalls, roundEndSyncs>>

\* ------------------------------------------------------------------ rounds
\* startRound whose onRoundStart callback leaves the grid as it is.
startRoundKeepingGrid ==
    /\ round' = startRoundState(round, cfg.durationMs, now)
    /\ roundTimer' = now + cfg.durationMs
    /\ UNCHANGED <<grid, coreZones>>
    /\ energyMap' = resetAll(energyMap, cfg.maxEnergy, now)
    /\ users' = resetRoundCaptures(users)
    /\ out' = <<[ev |-> "round_update", to |-> Everyone,
                 round |-> getState(startRoundState(round, cfg.durationMs, now),
                                    cfg.durationMs)],
                [ev |-> "full_sync", to |-> Everyone],
                Activity("round_start")>>
    /\ UNCHANGED <<cfg, requests, acceptLog, ret, colorIndex, factionIndex, nextId,
                   db, conn, roundEndSyncs>>

\* GameRoundService.startRound at Date.now() = now, with the onRoundStart callback.
startRound ==
    /\ round' = startRoundState(round, cfg.durationMs, now)
    /\ roundTimer' = now + cfg.durationMs
    /\ \E core \in CorePlacements(cfg.gridWidth, cfg.gridHeight) :
          /\ coreZones' = core
          /\ grid' = initializeGrid(core)
    /\ energyMap' = resetAll(energyMap, cfg.maxEnergy, now)
    /\ users' = resetRoundCaptures(users)
    /\ out' = <<[ev |-> "round_update", to |-> Everyone,
                 round |-> getState(startRoundState(round, cfg.durationMs, now),
                                    cfg.durationMs)],
                [ev |-> "full_sync", to |-> Everyone],
                Activity("round_start")>>
    /\ UNCHANGED <<cfg, requests, acceptLog, ret, colorIndex, factionIndex, nextId,
                   db, conn, roundEndSyncs>>

\* GameRoundService.endRound(topPlayers), with the onRoundEnd callback up to its
\* await of syncAllToDB, whose UPDATEs are sent at once.
endRound(topPlayers) ==
    /\ round' = endRoundState(round, topPlayers)
    /\ roundTimer' = 0
    /\ startTimers' = Append(startTimers, now + cfg.roundCooldownMs)
    /\ out' = <<[ev |-> "game_over", to |-> Everyone,
                 round |-> getState(endRoundState(round, topPlayers), cfg.durationMs),
                 topPlayers |-> getLeaderboard(users, TopPlayersLimit)],
                [ev |-> "round_update", to |-> Everyone,
                 round |-> getState(endRoundState(round, topPlayers), cfg.durationMs)]>>
    /\ \E ok \in cfg.dbOutcomes : db' = IF ok THEN syncAllToDB(db, users) ELSE db
    /\ roundEndSyncs' = Append(roundEndSyncs, endRoundState(round, topPlayers))
    /\ UNCHANGED <<cfg, now, ticks, grid, coreZones, energyMap, requests, acceptLog, ret,
                   users, colorIndex, factionIndex, nextId, conn>>

\* startServer: the first round starts before the server listens.
StartServer ==
    /\ round.roundNumber = 0
    /\ startRound
    /\ UNCHANGED <<now, ticks, startTimers, explicitCalls>>

\* A caller other than the timers calls startRound().
StartRoundExplicit ==
    /\ round.roundNumber >= 1
    /\ explicitCalls < cfg.maxExplicit
    /\ explicitCalls' = explicitCalls + 1
    /\ startRound
    /\ UNCHANGED <<now, ticks, startTimers>>

\* A caller other than the timers calls endRound(), with the leaderboard or
\* without an argument.
EndRoundExplicit ==
    /\ explicitCalls < cfg.maxExplicit
    /\ explicitCalls' = explicitCalls + 1
    /\ \E withTop \in BOOLEAN :
          endRound(IF withTop THEN getLeaderboard(users, TopPlayersLimit) ELSE <<>>)

\* The round timer fires: its callback is endRound() without an argument.
RoundTimerFires ==
    /\ roundTimer # 0
    /\ roundTimer <= now
    /\ \A t \in PendingTimers : roundTimer <= t
    /\ endRound(<<>>)
    /\ UNCHANGED explicitCalls

\* A next-round timer set by endRound fires: its callback is startRound().
CooldownTimerFires ==
    /\ startTimers # <<>>
    /\ Head(startTimers) <= now
    /\ \A t \in PendingTimers : Head(startTimers) <= t
    /\ startTimers' = Tail(startTimers)
    /\ startRound
    /\ UNCHANGED <<now, ticks, explicitCalls>>

\* GameRoundService.destroy(), called by gracefulShutdown, the last direct call
\* of a behaviour: clearTimeout on the roundTimer field and on the cooldownTimer
\* field, which holds the handle of the timer endRound set last (the newest of
\* the pending next-round timers, if it has not fired).
Destroy ==
    /\ ~TimerDue
    /\ round.roundNumber >= 1
    /\ explicitCalls < cfg.maxExplicit
    /\ explicitCalls' = cfg.maxExplicit
    /\ ret.op # "destroy"
    /\ ret' = [op |-> "destroy"]
    /\ roundTimer' = 0
    /\ startTimers' = IF startTimers = <<>> THEN <<>>
                      ELSE SubSeq(startTimers, 1, Len(startTimers) - 1)
    /\ out' = <<>>
    /\ UNCHANGED <<cfg, now, ticks, grid, coreZones, energyMap, requests, acceptLog,
                   users, colorIndex, factionIndex, nextId, db, conn, round, roundEndSyncs>>

\* syncAllToDB has settled: onRoundEnd broadcasts the round_end activity.
RoundEndSynced ==
    /\ ~TimerDue
    /\ roundEndSyncs # <<>>
    /\ roundEndSyncs' = Tail(roundEndSyncs)
    /\ out' = <<Activity("round_end") @@ [winner |-> Head(roundEndSyncs).winner]>>
    /\ UNCHANGED <<cfg, now, ticks, grid, coreZones, energyMap, requests, acceptLog, ret,
                   users, colorIndex, factionIndex, nextId, db, conn, round, roundTimer,
                   startTimers, explicitCalls>>

\* Time passes: by one of the scenario's steps, or up to the next timer.
Tick ==
    /\ ~TimerDue
    /\ ticks < cfg.maxTicks
    /\ ticks' = ticks + 1
    /\ \E d \in cfg.steps \cup {t - now : t \in {u \in PendingTimers : u > now}} :
          now' = now + d
    /\ out' = <<>>
    /\ UNCHANGED <<cfg, grid, coreZones, energyMap, requests, acceptLog, ret,
                   users, colorIndex, factionIndex, nextId, db, conn, round, roundTimer,
                   startTimers, explicitCalls, roundEndSyncs>>

\* --------------------------------------------------------------- scenarios
\* A player row left in the durable store by an earlier run of the server.
PersistedRow(username, total) ==
    [id |-> "p1", username |-> username, color |-> Palette[1], faction |-> FACTIONS[1],
     rank |-> getRankTier(total), total_captures |-> total]

\* No socket: only the timers and explicit startRound / endRound calls.
RoundsScenario ==
    DefaultConfig @@
    [sockets |-> {},
     names |-> [s \in Sockets |-> {}],
     clicks |-> [s \in Sockets |-> {}],
     steps |-> {},
     maxTicks |-> MaxTicks,
     maxExplicit |-> MaxExplicit,
     dbOutcomes |-> {TRUE},
     db0 |-> <<>>]

\* The configuration of startServer: one socket clicking one tile of the core
\* band many times within a round, over a durable store that can fail.
BurstScenario ==
    DefaultConfig @@
    [sockets |-> {"s1"},
     names |-> [s \in Sockets |-> {"NeonRunner7"}],
     clicks |-> [s \in Sockets |-> {<<15, 15>>}],
     steps |-> {},
     maxTicks |-> MaxTicks - 2,
     maxExplicit |-> 0,
     dbOutcomes |-> BOOLEAN,
     db0 |-> [n \in {"NeonRunner7"} |-> PersistedRow(n, 0)]]

\* An EnergyService built with energy for two captures only.
DrainedScenario ==
    [DefaultConfig EXCEPT !.maxEnergy = 10] @@
    [sockets |-> {"s1"},
     names |-> [s \in Sockets |-> {"NeonRunner7"}],
     clicks |-> [s \in Sockets |-> {<<14, 15>>, <<15, 15>>}],
     steps |-> {DefaultConfig.cooldownMs},
     maxTicks |-> MaxTicks - 2,
     maxExplicit |-> 0,
     dbOutcomes |-> {TRUE},
     db0 |-> <<>>]

\* One socket whose generated username is that of a persisted player one
\* ordinary capture plus one cluster bonus short of Silver, clicking five
\* connected tiles within one round.
ClusterScenario ==
    DefaultConfig @@
    [sockets |-> {"s1"},
     names |-> [s \in Sockets |-> {"NeonRunner7"}],
     clicks |-> [s \in Sockets |-> {<<13, 15>>, <<14, 15>>, <<15, 15>>,
                                     <<13, 16>>, <<14, 16>>}],
     steps |-> {},
     maxTicks |-> Min(1, MaxTicks),
     maxExplicit |-> 0,
     dbOutcomes |-> {TRUE},
     db0 |-> [n \in {"NeonRunner7"} |-> PersistedRow(n, 14)]]

\* Two sockets whose generated usernames coincide with each other and with a
\* persisted player, clicking the same tile within one round, under a rate
\* limit of two requests per window.
CollisionScenario ==
    [DefaultConfig EXCEPT !.maxCapturesPerSecond = 2] @@
    [sockets |-> Sockets,
     names |-> [s \in Sockets |-> {"NeonRunner7"}],
     clicks |-> [s \in Sockets |-> {<<14, 15>>}],
     steps |-> {},
     maxTicks |-> MaxTicks - 2,
     maxExplicit |-> 0,
     dbOutcomes |-> {TRUE},
     db0 |-> [n \in {"NeonRunner7"} |-> PersistedRow(n, 0)]]

\* Two sockets with different generated usernames, new to the durable store,
\* clicking the same tile of the core band within one round, under a rate limit
\* of two requests per window.
DuelScenario ==
    [DefaultConfig EXCEPT !.maxCapturesPerSecond = 2] @@
    [sockets |-> Sockets,
     names |-> [s \in Sockets |-> IF s = "s1" THEN {"NeonRunner7"} ELSE {"VoidSpark42"}],
     clicks |-> [s \in Sockets |-> {<<15, 15>>}],
     steps |-> {},
     maxTicks |-> Min(1, MaxTicks),
     maxExplicit |-> 0,
     dbOutcomes |-> {TRUE},
     db0 |-> <<>>]

\* One socket clicking one tile through the end of a round and the start of the
\* next, under a rate limit of two requests per window.
RestartScenario ==
    [DefaultConfig EXCEPT !.maxCapturesPerSecond = 2] @@
    [sockets |-> {"s1"},
     names |-> [s \in Sockets |-> {"NeonRunner7"}],
     clicks |-> [s \in Sockets |-> {<<14, 15>>}],
     steps |-> {},
     maxTicks |-> MaxTicks - 1,
     maxExplicit |-> 0,
     dbOutcomes |-> {TRUE},
     db0 |-> <<>>]

\* Two sockets whose generated usernames coincide with a persisted player one
\* capture short of Silver, clicking one ordinary tile.
OverwriteScenario ==
    [DefaultConfig EXCEPT !.maxCapturesPerSecond = 2] @@
    [sockets |-> Sockets,
     names |-> [s \in Sockets |-> {"NeonRunner7"}],
     clicks |-> [s \in Sockets |-> {<<14, 15>>}],
     steps |-> {},
     maxTicks |-> MaxTicks - 3,
     maxExplicit |-> 0,
     dbOutcomes |-> {TRUE},
     db0 |-> [n \in {"NeonRunner7"} |-> PersistedRow(n, 19)]]

\* One socket naming a tile id outside the configured grid (column 100 of
\* columns 0..99) and a tile of the grid.
InvalidScenario ==
    [DefaultConfig EXCEPT !.maxCapturesPerSecond = 2] @@
    [sockets |-> {"s1"},
     names |-> [s \in Sockets |-> {"NeonRunner7"}],
     clicks |-> [s \in Sockets |-> {<<100, 15>>, <<14, 15>>}],
     steps |-> {},
     maxTicks |-> MaxTicks - 3,
     maxExplicit |-> 0,
     dbOutcomes |-> {TRUE},
     db0 |-> <<>>]

Scenarios ==
    {RoundsScenario, BurstScenario, DrainedScenario, ClusterScenario, CollisionScenario,
     DuelScenario, RestartScenario, OverwriteScenario, InvalidScenario}

Init ==
    /\ cfg \in Scenarios
    /\ now = StartTime
    /\ ticks = 0
    /\ coreZones = {}
    /\ grid = initializeGrid({})
    /\ energyMap = <<>>
    /\ requests = <<>>
    /\ acceptLog = <<>>
    /\ ret = [op |-> "new"]
    /\ users = <<>>
    /\ colorIndex = 0
    /\ factionIndex = 0
    /\ nextId = 1
    /\ db = cfg.db0
    /\ conn = [s \in Sockets |-> [phase |-> "idle", open |-> FALSE,
                                  username |-> Null, pendingId |-> Null]]
    /\ round = [roundNumber |-> 0, status |-> "waiting", startedAt |-> 0,
                endsAt |-> 0, winner |-> <<>>]
    /\ roundTimer = 0
    /\ startTimers = <<>>
    /\ explicitCalls = 0
    /\ roundEndSyncs = <<>>
    /\ out = <<>>

Next ==
    \/ StartServer
    \/ StartRoundExplicit
    \/ EndRoundExplicit
    \/ RoundTimerFires
    \/ CooldownTimerFires
    \/ RoundEndSynced
    \/ Destroy
    \/ Tick
    \/ \E s \in Sockets : Connect(s)
    \/ \E s \in Sockets : LookupReturns(s)
    \/ \E s \in Sockets : TouchReturns(s)
    \/ \E s \in Sockets : InsertReturns(s)
    \/ \E s \in Sockets : Disconnect(s)
    \/ \E s \in Sockets : FlushReturns(s)
    \/ \E s \in Sockets : Capture(s)

Spec == Init /\ [][Next]_vars

\* ---------------------------------------------------------- cluster driver
\* One connected participant filling a block of two rows of five tiles in a
\* fixed order, with one tile apart from the block, in a running round.
ClusterPath ==
    <<<<13, 15>>, <<14, 15>>, <<15, 15>>, <<16, 15>>, <<17, 15>>,
      <<17, 16>>, <<16, 16>>, <<15, 16>>, <<14, 16>>, <<13, 16>>>>

ClusterIsolated == <<19, 15>>

ClusterCells == Range(ClusterPath) \cup {ClusterIsolated}

\* The tiles the participant clicks: the next tile of the path while one is
\* unowned, and once it owns the whole block the first tile of the path again
\* and the tile apart.
ClusterClickable ==
    IF \E j \in DOMAIN ClusterPath : grid[ClusterPath[j]].ownerId = Null
    THEN {ClusterPath[j] : j \in {k \in DOMAIN ClusterPath :
             /\ grid[ClusterPath[k]].ownerId = Null
             /\ \A i \in 1..(k - 1) : grid[ClusterPath[i]].ownerId # Null}}
    ELSE {ClusterPath[1], ClusterIsolated}

\* The state after startServer and the registration of one new player.
ClusterInit ==
    /\ cfg = DefaultConfig
    /\ now = StartTime
    /\ ticks = 0
    /\ coreZones = {}
    /\ grid = [c \in ClusterCells |->
                 [ownerId |-> Null, color |-> Null, lastCapturedAt |-> 0, isCore |-> FALSE]]
    /\ users = <<[id |-> generateUserId(1), socketId |-> "s1", username |-> "NeonRunner7",
                  color |-> Palette[1], faction |-> FACTIONS[1], capturesCount |-> 0,
                  roundCaptures |-> 0, streak |-> 0, rank |-> "Bronze",
                  lastActivity |-> StartTime]>>
    /\ colorIndex = 1
    /\ factionIndex = 1
    /\ nextId = 2
    /\ db = [n \in {"NeonRunner7"} |-> PlayerRow(users[1])]
    /\ energyMap = [u \in {generateUserId(1)} |->
                      initUserEnergy(cfg.maxEnergy, cfg.regenRate, StartTime)]
    /\ requests = <<>>
    /\ acceptLog = <<>>
    /\ ret = [op |-> "new"]
    /\ conn = [s \in Sockets |->
                 IF s = "s1"
                 THEN [phase |-> "ready", open |-> TRUE, username |-> "NeonRunner7",
                       pendingId |-> generateUserId(1)]
                 ELSE [phase |-> "idle", open |-> FALSE, username |-> Null,
                       pendingId |-> Null]]
    /\ round = [roundNumber |-> 1, status |-> "active", startedAt |-> StartTime,
                endsAt |-> StartTime + cfg.durationMs, winner |-> <<>>]
    /\ roundTimer = StartTime + cfg.durationMs
    /\ startTimers = <<>>
    /\ explicitCalls = 0
    /\ roundEndSyncs = <<>>
    /\ out = <<>>

ClusterCapture ==
    \E c \in ClusterClickable :
        LET h == handleCaptureRequest("s1", c) IN
        /\ users' = h.users
        /\ requests' = h.requests
        /\ energyMap' = h.energyMap
        /\ grid' = h.grid
        /\ out' = h.out
        /\ UNCHANGED <<cfg, now, ticks, coreZones, acceptLog, ret, colorIndex, factionIndex,
                       nextId, db, conn, round, roundTimer, startTimers, explicitCalls,
                       roundEndSyncs>>

ClusterTick ==
    /\ ticks < ClusterMaxTicks
    /\ ticks' = ticks + 1
    /\ now' = now + cfg.cooldownMs
    /\ out' = <<>>
    /\ UNCHANGED <<cfg, grid, coreZones, energyMap, requests, acceptLog, ret,
                   users, colorIndex, factionIndex, nextId, db, conn, round, roundTimer,
                   startTimers, explicitCalls, roundEndSyncs>>

ClusterNext == ClusterCapture \/ ClusterTick

SpecCluster == ClusterInit /\ [][ClusterNext]_vars

\* ================================================================== claims
\* A step in which startRound ran, and one in which endRound ran.
StartRoundStep == round'.roundNumber # round.roundNumber
EndRoundStep == Len(roundEndSyncs') > Len(roundEndSyncs)

\* C4: across any sequence of startRound and endRound events, fired by the timers
\* or called explicitly, the round number never decreases and grows by exactly 1
\* at each start, and the status only goes waiting -> active, active -> ended or
\* ended -> active: a start never finds the round active, and an end never finds
\* it waiting or ended.
C4_RoundTransitions ==
    [][/\ round'.roundNumber >= round.roundNumber
       /\ StartRoundStep =>
             /\ round'.roundNumber = round.roundNumber + 1
             /\ round.status \in {"waiting", "ended"}
             /\ round'.status = "active"
       /\ EndRoundStep =>
             /\ round.status = "active"
             /\ round'.status = "ended"
       /\ (~StartRoundStep /\ ~EndRoundStep) => round'.status = round.status]_vars

\* C4, the part the code keeps: the round number never decreases and every start
\* adds exactly 1 to it and leaves the round active; every end leaves it ended.
C4_NumberGrowsByOne ==
    [][/\ round'.roundNumber >= round.roundNumber
       /\ StartRoundStep =>
             (round'.roundNumber = round.roundNumber + 1 /\ round'.status = "active")
       /\ EndRoundStep => round'.status = "ended"
       /\ (~StartRoundStep /\ ~EndRoundStep) => round' = round]_vars

\* C4 witness: a started round has been ended twice in a row, and two
\* next-round timers are pending.
C4_Witness ==
    /\ round.roundNumber >= 1
    /\ round.status = "ended"
    /\ Len(startTimers) = 2

\* The events of one kind among the events a handler emitted.
EventsOf(o, ev) == {i \in DOMAIN o : o[i].ev = ev}

\* A step in which handleCaptureRequest captured a tile.
CapturedStep == out' # <<>> /\ out'[1].ev = "cell_updated"

\* The tier boundaries crossed in a step: the users whose lifetime total moved
\* to another tier.
TierCrossings ==
    {i \in DOMAIN users :
        /\ UserIndex(users', users[i].id) # 0
        /\ getRankTier(users'[UserIndex(users', users[i].id)].capturesCount)
              # getRankTier(users[i].capturesCount)}

\* C5: a capture broadcasts exactly one rank_up for each tier boundary the
\* requester's lifetime total crosses in it, whether capture points or
\* cluster-bonus points carry it across, and none when the tier is unchanged.
C5_RankUpPerCrossing ==
    [][CapturedStep =>
          Cardinality(EventsOf(out', "rank_up")) = Cardinality(TierCrossings)]_vars

\* C5 witness: a capture whose cluster bonus made the requester Silver, and
\* whose events hold the cluster_bonus but no rank_up.
C5_Witness ==
    /\ out # <<>>
    /\ out[1].ev = "cell_updated"
    /\ EventsOf(out, "cluster_bonus") # {}
    /\ EventsOf(out, "rank_up") = {}
    /\ \E i \in DOMAIN users :
          /\ users[i].socketId = out[2].to
          /\ users[i].capturesCount = 20
          /\ users[i].rank = "Silver"

\* The winner summary of a leaderboard entry.
WinnerOf(entry) ==
    [username |-> entry.username, color |-> entry.color, faction |-> entry.faction,
     score |-> entry.roundCaptures]

\* C6: when a round ends, by its timer or by an explicit end, while at least one
\* participant is registered, the winner of the round state is the first entry of
\* the leaderboard of that moment.
C6_WinnerIsLeader ==
    [][(EndRoundStep /\ users # <<>>) =>
          round'.winner = <<WinnerOf(getLeaderboard(users, TopPlayersLimit)[1])>>]_vars

\* C6 witness: the round timer has ended a round in which a registered
\* participant captured, and the round has no winner.
C6_Witness ==
    /\ explicitCalls = 0
    /\ round.status = "ended"
    /\ round.winner = <<>>
    /\ \E i \in DOMAIN users : users[i].roundCaptures > 0

\* The stages of a capture request, stated on the state the request finds.
\* The rate guard is full for an identity: maxCapturesPerSecond of its recorded
\* timestamps are younger than the window.
RateFull(userId) ==
    /\ userId \in DOMAIN requests
    /\ Cardinality({k \in DOMAIN requests[userId] :
                      now - requests[userId][k] < cfg.rateLimitWindowMs})
          >= cfg.maxCapturesPerSecond

\* The energy an identity has at this instant, regeneration included.
EnergyNow(userId) ==
    Min(energyMap[userId].max,
        energyMap[userId].current
          + ((now - energyMap[userId].lastRegenAt) * energyMap[userId].regenRate)
              \div MsPerSecond)

EnergyShort(userId) ==
    userId \notin DOMAIN energyMap \/ EnergyNow(userId) < cfg.captureCost

\* Lifetime total, round total, rank and streak of every user.
Totals(us) ==
    [i \in DOMAIN us |-> <<us[i].id, us[i].capturesCount, us[i].roundCaptures,
                           us[i].rank, us[i].streak>>]

\* C7: a capture request goes through identity resolution, the round-active
\* check, the rate check, energy consumption and the grid capture in this order
\* and stops at the first stage that fails: the answer is that stage's, and the
\* state of the later stages is unchanged (unknown identity or inactive round: no
\* timestamp recorded, no energy deducted; rate limited: no energy deducted;
\* not enough energy: no tile and no capture total changed).
C7_StopsAtFirstFailure ==
    [][\A s \in Sockets : Capture(s) =>
          LET i == getUserBySocket(users, s) IN
          IF i = 0
          THEN /\ out'[1].ev = "capture_rejected"
               /\ out'[1].reason = "User not found"
               /\ requests' = requests /\ energyMap' = energyMap
               /\ grid' = grid /\ users' = users
          ELSE IF round.status # "active"
          THEN /\ out'[1].ev = "capture_rejected"
               /\ out'[1].reason = "Round not active. Wait for next round!"
               /\ requests' = requests /\ energyMap' = energyMap
               /\ grid' = grid /\ users' = users
          ELSE IF RateFull(users[i].id)
          THEN /\ out'[1].ev = "rate_limited"
               /\ energyMap' = energyMap /\ grid' = grid /\ users' = users
          ELSE IF EnergyShort(users[i].id)
          THEN /\ out'[1].ev = "capture_rejected"
               /\ out'[1].reason = "Not enough energy!"
               /\ now \in Range(requests'[users[i].id])
               /\ grid' = grid /\ Totals(users') = Totals(users)
          ELSE /\ now \in Range(requests'[users[i].id])
               /\ energyMap'[users[i].id].current
                     = EnergyNow(users[i].id) - cfg.captureCost
               /\ \/ out'[1].ev = "cell_updated"
                  \/ /\ out'[1].ev = "capture_rejected"
                     /\ out'[1].reason \in {"Cell on cooldown", "Invalid cell ID"}]_vars

\* C7 witness: a request that passed the rate check at this instant was refused
\* for lack of energy, the requester holding a tile from an earlier capture.
C7_Witness ==
    /\ out # <<>>
    /\ out[1].ev = "capture_rejected"
    /\ out[1].reason = "Not enough energy!"
    /\ \E i \in DOMAIN users :
          /\ users[i].socketId = out[1].to
          /\ users[i].id \in DOMAIN requests
          /\ now \in Range(requests[users[i].id])
          /\ Owned(grid, users[i].id) # {}

\* C8: every rejected capture request emits events to the requester only; a denial
\* by the rate guard is a rate_limited event and no capture_rejected, every other
\* rejection is a capture_rejected and no rate_limited.
C8_RejectionsToRequesterOnly ==
    [][\A s \in Sockets : (Capture(s) /\ out'[1].ev # "cell_updated") =>
          /\ \A k \in DOMAIN out' : out'[k].to = s
          /\ LET i == getUserBySocket(users, s) IN
             IF i # 0 /\ round.status = "active" /\ RateFull(users[i].id)
             THEN /\ EventsOf(out', "rate_limited") # {}
                  /\ EventsOf(out', "capture_rejected") = {}
             ELSE /\ EventsOf(out', "capture_rejected") # {}
                  /\ EventsOf(out', "rate_limited") = {}]_vars

\* C8 witness: a request was refused by the rate guard while another socket was
\* connected and listening.
C8_Witness ==
    /\ out # <<>>
    /\ out[1].ev = "rate_limited"
    /\ \E s \in Sockets :
          s # out[1].to /\ conn[s].phase = "ready" /\ conn[s].open

\* C9: a request that passes the energy stage and is refused by the grid for
\* cooldown leaves the requester's energy reduced by the capture cost, and leaves
\* the tile and the requester's capture totals unchanged.
C9_NoRefundOnCooldown ==
    [][\A s \in Sockets :
          (/\ Capture(s)
           /\ out'[1].ev = "capture_rejected"
           /\ out'[1].reason = "Cell on cooldown") =>
          LET userId == users[getUserBySocket(users, s)].id IN
          /\ energyMap'[userId].current = EnergyNow(userId) - cfg.captureCost
          /\ grid' = grid
          /\ Totals(users') = Totals(users)]_vars

\* C9 witness: two immediate captures of one tile from full energy 100 at cost 5:
\* the second was refused for cooldown and the energy is 90.
C9_Witness ==
    /\ out # <<>>
    /\ out[1].ev = "capture_rejected"
    /\ out[1].reason = "Cell on cooldown"
    /\ cfg.maxEnergy = 100
    /\ cfg.captureCost = 5
    /\ \E i \in DOMAIN users :
          /\ users[i].socketId = out[1].to
          /\ energyMap[users[i].id].current = 90
          /\ grid[out[1].cellId].lastCapturedAt = now
          /\ grid[out[1].cellId].ownerId = users[i].id

\* C10: a request refused by the rate guard changes no state: the grid, the
\* energy records, the users' totals, rank and streak and the timestamps the rate
\* guard has recorded are the same after it as before.
C10_RateDenialChangesNothing ==
    [][\A s \in Sockets : (Capture(s) /\ out'[1].ev = "rate_limited") =>
          /\ grid' = grid
          /\ energyMap' = energyMap
          /\ users' = users
          /\ requests' = requests]_vars

\* C10 witness: the request after the maxCapturesPerSecond-th of one identity in
\* one window, under the limit of 10 of startServer, was refused.
C10_Witness ==
    /\ out # <<>>
    /\ out[1].ev = "rate_limited"
    /\ cfg.maxCapturesPerSecond = 10
    /\ \E i \in DOMAIN users :
          /\ users[i].socketId = out[1].to
          /\ Len(requests[users[i].id]) = cfg.maxCapturesPerSecond
          /\ \A k \in DOMAIN requests[users[i].id] : requests[users[i].id][k] = now

\* The bonus points of the cluster_bonus event among the events, 0 without one.
BonusIn(o) ==
    IF EventsOf(o, "cluster_bonus") = {} THEN 0
    ELSE o[CHOOSE k \in EventsOf(o, "cluster_bonus") : TRUE].bonusPoints

\* C11: a capture request that passes every stage sets the tile's owner and color
\* to the requester's and its last-captured time to now, takes exactly the capture
\* cost from the requester's energy, and adds the awarded points (5 for a core
\* tile, 1 otherwise; plus the cluster bonus when one is announced) to the
\* requester's lifetime and round totals; no other tile, and no other
\* participant's energy or record, changes.
C11_SuccessfulCapture ==
    [][\A s \in Sockets : (Capture(s) /\ out'[1].ev = "cell_updated") =>
          LET u == users[getUserBySocket(users, s)]
              c == out'[1].cellId
              points == IF grid[c].isCore THEN 5 ELSE 1
              j == UserIndex(users', u.id)
          IN /\ grid'[c].ownerId = u.id
             /\ grid'[c].color = u.color
             /\ grid'[c].lastCapturedAt = now
             /\ energyMap'[u.id].current = EnergyNow(u.id) - cfg.captureCost
             /\ users'[j].capturesCount = u.capturesCount + points + BonusIn(out')
             /\ users'[j].roundCaptures = u.roundCaptures + points + BonusIn(out')
             /\ \A d \in Cells \ {c} : grid'[d] = grid[d]
             /\ \A k \in DOMAIN users : users[k].id # u.id => users'[k] = users[k]
             /\ \A v \in DOMAIN energyMap \ {u.id} : energyMap'[v] = energyMap[v]]_vars

\* C11 witness: a fresh participant captured a core tile for 5 points, its energy
\* went from 100 to 95, and another participant is registered.
C11_Witness ==
    /\ out # <<>>
    /\ out[1].ev = "cell_updated"
    /\ out[1].cell.isCore
    /\ Len(users) = 2
    /\ \E i \in DOMAIN users :
          /\ users[i].socketId = out[2].to
          /\ users[i].capturesCount = 5
          /\ users[i].roundCaptures = 5
          /\ energyMap[users[i].id].current = 95
          /\ grid[out[1].cellId].ownerId = users[i].id

\* The 4-connected group of c among the tiles own: what n rounds of adding the
\* tiles at distance 1 reach.
RECURSIVE GroupOf(_, _, _)
GroupOf(own, group, n) ==
    IF n = 0 THEN group
    ELSE GroupOf(own,
                 group \cup {d \in own : \E e \in group : ManhattanDist(d, e) = 1},
                 n - 1)

\* The size of the largest 4-connected group of tiles an identity owns.
LargestGroup(g, userId) ==
    LET own == {c \in DOMAIN g : g[c].ownerId = userId}
        sizes == {Cardinality(GroupOf(own, {c}, Cardinality(own))) : c \in own}
    IN IF own = {} THEN 0 ELSE CHOOSE n \in sizes : \A m \in sizes : m <= n

\* The requester of a capture that succeeded: the user of the socket the
\* energy_update went to.
Requester == users[getUserBySocket(users, out'[2].to)]

BonusOfTen(o) ==
    {k \in EventsOf(o, "cluster_bonus") : o[k].clusterSize = 10 /\ o[k].bonusPoints = 2}

\* C13 as stated: the 2-point bonus for a group of 10 tiles comes once, at the
\* capture that completes the 10th connected tile, and not at a later capture by
\* the participant that finds the group at 10 tiles and leaves it there.
C13_BonusOfTenOnce ==
    [][CapturedStep =>
          /\ (LargestGroup(grid, Requester.id) < 10 /\ LargestGroup(grid', Requester.id) = 10)
                => BonusOfTen(out') # {}
          /\ LargestGroup(grid, Requester.id) = 10 => BonusOfTen(out') = {}]_vars

\* C13 as the code has it: the 2-point bonus for a group of 10 tiles comes at the
\* capture that completes the 10th connected tile and again at every later
\* successful capture by the participant after which its largest group still
\* has 10 tiles.
C13_BonusOfTenAtEveryCapture ==
    [][CapturedStep =>
          (Cardinality(BonusOfTen(out')) = 1 <=> LargestGroup(grid', Requester.id) = 10)
          /\ Cardinality(BonusOfTen(out')) <= 1]_vars

\* C13 witness: with the block of 10 tiles complete, the capture of the tile apart
\* was announced with the bonus of 2 again.
C13_Witness ==
    /\ out # <<>>
    /\ out[1].ev = "cell_updated"
    /\ out[1].cellId = ClusterIsolated
    /\ BonusOfTen(out) # {}
    /\ \A k \in DOMAIN ClusterPath : grid[ClusterPath[k]].ownerId = users[1].id

\* C14: right after every round start every tile is unowned and has no color, every
\* registered participant with an energy record has energy max and its round total
\* is 0, while its lifetime total and rank tier are as before the start; a round
\* end resets neither the grid nor the energy nor the round totals.
C14_ResetAtStartOnly ==
    [][/\ StartRoundStep =>
             /\ \A c \in DOMAIN grid' :
                   grid'[c].ownerId = Null /\ grid'[c].color = Null
             /\ Len(users') = Len(users)
             /\ \A i \in DOMAIN users :
                   /\ users'[i].id = users[i].id
                   /\ users'[i].roundCaptures = 0
                   /\ users'[i].capturesCount = users[i].capturesCount
                   /\ users'[i].rank = users[i].rank
                   /\ users[i].id \in DOMAIN energyMap =>
                         /\ energyMap'[users[i].id].current = cfg.maxEnergy
                         /\ energyMap'[users[i].id].current = energyMap'[users[i].id].max
       /\ EndRoundStep =>
             /\ grid' = grid
             /\ energyMap' = energyMap
             /\ users' = users]_vars

\* C14 witness: the second round has just started; a participant who captured in
\* the first round has its lifetime total, no round total and full energy, and no
\* tile is owned.
C14_Witness ==
    /\ round.roundNumber = 2
    /\ round.startedAt = now
    /\ out # <<>>
    /\ out[1].ev = "round_update"
    /\ \A c \in DOMAIN grid : grid[c].ownerId = Null
    /\ \E i \in DOMAIN users :
          /\ users[i].capturesCount > 0
          /\ users[i].roundCaptures = 0
          /\ users[i].id \in DOMAIN energyMap
          /\ energyMap[users[i].id].current = cfg.maxEnergy

\* The reason given when the round is not active.
RoundInactiveReason == "Round not active. Wait for next round!"

\* A capture request of socket s handled while the round is Waiting or Ended.
InactiveCapture(s) == Capture(s) /\ round.status \in {"waiting", "ended"}

\* The request changed no tile, no energy, no participant and no rate record.
NothingMutated ==
    /\ grid' = grid
    /\ energyMap' = energyMap
    /\ users' = users
    /\ requests' = requests
    /\ acceptLog' = acceptLog

C15_UnknownWitness ==
    /\ round.status \in {"waiting", "ended"}
    /\ out # <<>>
    /\ out[1].ev = "capture_rejected"
    /\ out[1].reason = "User not found"

\* Tile c was taken by some participant less than cooldownMs ago.
Held(c) == grid[c].ownerId # Null /\ now - grid[c].lastCapturedAt < cfg.cooldownMs

\* A capture request of socket s for a tile of the grid that reaches the grid: its
\* participant is known, the round is active, the rate guard admits it and it has
\* the energy.
ReachesGrid(s) ==
    LET i == getUserBySocket(users, s) IN
    /\ Capture(s)
    /\ i # 0
    /\ round.status = "active"
    /\ ~RateFull(users[i].id)
    /\ ~EnergyShort(users[i].id)
    /\ out'[1].cellId \in DOMAIN grid

\* C16: of the requests for one tile that reach the grid within cooldownMs of each
\* other, the one handled first takes ownership (the tile was capturable) and a
\* later one by another participant is rejected with the cooldown reason and
\* leaves the tile, owner included, as the first left it.
C16_FirstRequestWins ==
    [][\A s \in Sockets : ReachesGrid(s) =>
          LET c == out'[1].cellId
              me == users[getUserBySocket(users, s)].id
          IN IF Held(c)
             THEN /\ grid' = grid
                  /\ grid'[c].ownerId = grid[c].ownerId
                  /\ Len(out') = 1
                  /\ out'[1].ev = "capture_rejected"
                  /\ out'[1].to = s
                  /\ out'[1].reason = "Cell on cooldown"
             ELSE /\ out'[1].ev = "cell_updated"
                  /\ grid'[c].ownerId = me
                  /\ grid'[c].lastCapturedAt = now
                  /\ \A d \in DOMAIN grid \ {c} : grid'[d] = grid[d]]_vars

\* C16 witness: two registered participants asked for the same tile at the same
\* instant of one round; the tile belongs to the one handled first and the other
\* was just rejected with the cooldown reason.
C16_Witness ==
    /\ round.status = "active"
    /\ Len(out) = 1
    /\ out[1].ev = "capture_rejected"
    /\ out[1].reason = "Cell on cooldown"
    /\ LET c == out[1].cellId
           j == getUserBySocket(users, out[1].to)
       IN /\ j # 0
          /\ grid[c].ownerId \notin {Null, users[j].id}
          /\ grid[c].lastCapturedAt >= round.startedAt
          /\ now - grid[c].lastCapturedAt < cfg.cooldownMs
          /\ \E i \in DOMAIN users :
                users[i].id = grid[c].ownerId /\ users[i].roundCaptures > 0

\* ------------------------------------------------------ leaderboard driver
\* Calls of getLeaderboard on a UserService whose registry holds up to
\* BoardMaxUsers users, in registration order, with round totals and lifetime
\* totals up to BoardMaxPoints (a lifetime total is never below the round total
\* of a user registered as new).
BoardUser(i, roundCaptures, capturesCount) ==
    [id |-> generateUserId(i), socketId |-> "s" \o ToString(i),
     username |-> "Player" \o ToString(i),
     color |-> Palette[((i - 1) % Len(Palette)) + 1],
     faction |-> FACTIONS[((i - 1) % Len(FACTIONS)) + 1],
     capturesCount |-> capturesCount, roundCaptures |-> roundCaptures, streak |-> 0,
     rank |-> getRankTier(capturesCount), lastActivity |-> StartTime]

BoardTotals == {t \in (0..BoardMaxPoints) \X (0..BoardMaxPoints) : t[1] <= t[2]}

BoardRegistries ==
    UNION {{[i \in 1..n |-> BoardUser(i, f[i][1], f[i][2])] : f \in [1..n -> BoardTotals]} :
             n \in 0..BoardMaxUsers}

\* The limits asked for: the default of the method, and every small one.
BoardLimits == (1..(BoardMaxUsers + 1)) \cup {10}

BoardInit ==
    /\ cfg = DefaultConfig
    /\ now = StartTime
    /\ ticks = 0
    /\ coreZones = {}
    /\ grid = initializeGrid({})
    /\ energyMap = <<>>
    /\ requests = <<>>
    /\ acceptLog = <<>>
    /\ ret = [op |-> "new"]
    /\ users \in BoardRegistries
    /\ colorIndex = 0
    /\ factionIndex = 0
    /\ nextId = Len(users) + 1
    /\ db = <<>>
    /\ conn = [s \in Sockets |-> [phase |-> "idle", open |-> FALSE,
                                  username |-> Null, pendingId |-> Null]]
    /\ round = [roundNumber |-> 0, status |-> "waiting", startedAt |-> 0,
                endsAt |-> 0, winner |-> <<>>]
    /\ roundTimer = 0
    /\ startTimers = <<>>
    /\ explicitCalls = 0
    /\ roundEndSyncs = <<>>
    /\ out = <<>>

BoardGetLeaderboard ==
    /\ \E limit \in BoardLimits :
          ret' = [op |-> "getLeaderboard", limit |-> limit,
                  result |-> getLeaderboard(users, limit)]
    /\ UNCHANGED <<cfg, now, ticks, grid, coreZones, energyMap, requests, acceptLog>>
    /\ UNCHANGED handlerVars

BoardNext == BoardGetLeaderboard

SpecBoard == BoardInit /\ [][BoardNext]_vars

\* The place in the registry of the user a leaderboard entry shows.
BoardIndexOf(entry) == CHOOSE i \in DOMAIN users : users[i].username = entry.username

\* Entry a ranks strictly above b: more round captures, or as many and more
\* lifetime captures.
RanksAbove(a, b) ==
    \/ a.roundCaptures > b.roundCaptures
    \/ a.roundCaptures = b.roundCaptures /\ a.capturesCount > b.capturesCount

\* C17: getLeaderboard(limit) lists the first min(limit, n) participants in the
\* order of round captures descending, then lifetime captures descending, with
\* positions 1, 2, ...; the sequence is a function of the registry alone:
\* participants tied on both keys appear in registration order, so the result is
\* fully determined and two identical registries give identical sequences.
C17_LeaderboardOrder ==
    ret.op = "getLeaderboard" =>
        LET lb == ret.result
            shown == {lb[k].username : k \in DOMAIN lb}
        IN /\ Len(lb) = Min(ret.limit, Len(users))
           /\ Cardinality(shown) = Len(lb)
           /\ \A k \in DOMAIN lb :
                 /\ lb[k].position = k
                 /\ \E i \in DOMAIN users : users[i].username = lb[k].username
                 /\ lb[k].roundCaptures = users[BoardIndexOf(lb[k])].roundCaptures
                 /\ lb[k].capturesCount = users[BoardIndexOf(lb[k])].capturesCount
                 /\ lb[k].rank = users[BoardIndexOf(lb[k])].rank
           /\ \A k \in DOMAIN lb : \A m \in DOMAIN lb :
                 k < m =>
                    /\ ~RanksAbove(lb[m], lb[k])
                    /\ ~RanksAbove(lb[k], lb[m]) => BoardIndexOf(lb[k]) < BoardIndexOf(lb[m])
           /\ \A i \in DOMAIN users :
                 users[i].username \notin shown =>
                    \A k \in DOMAIN lb :
                       /\ ~RanksAbove(users[i], lb[k])
                       /\ ~RanksAbove(lb[k], users[i]) => BoardIndexOf(lb[k]) < i
           /\ ret.result = getLeaderboard(users, ret.limit)

\* C17 witness: a leaderboard of three participants cut to two, in which the
\* second registered leads on round captures, and the first and the third are
\* tied on round captures with the third ahead on lifetime captures.
C17_Witness ==
    /\ ret.op = "getLeaderboard"
    /\ ret.limit = 2
    /\ Len(users) = 3
    /\ users[1].roundCaptures = users[3].roundCaptures
    /\ users[1].capturesCount < users[3].capturesCount
    /\ users[2].roundCaptures > users[1].roundCaptures
    /\ Len(ret.result) = 2
    /\ ret.result[1].username = users[2].username
    /\ ret.result[2].username = users[3].username

\* The place of a tier in the order Bronze < Silver < Gold < Diamond < Neon.
TierIndex(rank) ==
    CASE rank = "Bronze" -> 1
      [] rank = "Silver" -> 2
      [] rank = "Gold" -> 3
      [] rank = "Diamond" -> 4
      [] rank = "Neon" -> 5

\* Every participant's stored tier is the step function of its lifetime captures.
C18_RankIsStepFunction ==
    \A i \in DOMAIN users : users[i].rank = getRankTier(users[i].capturesCount)

\* No step lowers the tier of a participant that stays in the registry.
RankNeverLower ==
    \A i \in DOMAIN users : \A j \in DOMAIN users' :
        users'[j].id = users[i].id =>
            TierIndex(users'[j].rank) >= TierIndex(users[i].rank)

\* C18: in every reachable state each participant's stored rank tier is the step
\* function of its lifetime captures, and the tier of a connected participant
\* never moves to a lower tier.
C18_RankStepAndMonotone ==
    [][C18_RankIsStepFunction' /\ RankNeverLower]_vars

\* C18 witness: a participant restored from the durable store one capture short
\* of Silver has captured a tile and holds Silver with 20 lifetime captures, while
\* a second connection is being registered under the same username.
C18_Witness ==
    /\ \E i \in DOMAIN users :
          /\ users[i].capturesCount = 20
          /\ users[i].rank = "Silver"
          /\ conn[users[i].socketId].open
          /\ \E s \in Sockets \ {users[i].socketId} :
                conn[s].phase = "lookup" /\ conn[s].username = users[i].username

\* destroy() has been called.
Destroyed == ret.op = "destroy"

\* C19: at every moment at most one round-end timer and at most one next-round
\* timer is pending, whatever the sequence of startRound, endRound and timer
\* fires; once destroy() was called no round timer is pending and the round
\* state makes no further transition.
C19_TimersBoundedAndCancelled ==
    /\ [](/\ Cardinality({roundTimer} \ {0}) <= 1
          /\ Len(startTimers) <= 1
          /\ Destroyed => PendingTimers = {})
    /\ [][Destroyed => round' = round]_vars

\* What holds: as long as startRound and endRound are called by startServer and
\* by the two timers only, at most one next-round timer is pending.
C19_OneTimerWhenTimerDriven == explicitCalls = 0 => Len(startTimers) <= 1

\* The second half of C19 alone: nothing pending and no transition after destroy().
C19_NothingAfterDestroy ==
    /\ [](Destroyed => PendingTimers = {})
    /\ [][Destroyed => round' = round]_vars

\* C19 witness: endRound ran twice in a row, destroy() cancelled the newer of
\* the two next-round timers, and the older one is still pending.
C19_Witness ==
    /\ Destroyed
    /\ round.status = "ended"
    /\ roundTimer = 0
    /\ Len(startTimers) = 1
    /\ startTimers[1] > now

\* A round-end handler has made its first effects (game_over, round_update) and
\* not yet its last (the round_end activity): it waits for syncAllToDB.
RoundEndInFlight == roundEndSyncs # <<>>

\* C20: every capture request and every round-start and round-end handler runs
\* to completion before another event begins: between the first and the last
\* effect of a round-end handler no capture request is handled, no round timer
\* fires and no round starts or ends.
C20_HandlersRunToCompletion ==
    [][RoundEndInFlight =>
          /\ ~ \E s \in Sockets : Capture(s)
          /\ ~ StartRoundStep
          /\ ~ EndRoundStep]_vars

\* What holds: a capture request is never handled, and no participant changes,
\* while the round state is being changed; the part of the round-end handler
\* that runs late changes no state, it only broadcasts.
C20_LateEffectIsBroadcastOnly ==
    [][(RoundEndInFlight /\ Len(roundEndSyncs') < Len(roundEndSyncs))
          => /\ UNCHANGED <<grid, energyMap, requests, users, db, round, roundTimer,
                           startTimers>>
             /\ Len(out') = 1
             /\ out'[1].ev = "activity_feed"]_vars

\* C20 witness: the next round has started and a capture was accepted in it while
\* the round-end handler of the previous round still waits to broadcast its
\* round_end activity.
C20_Witness ==
    /\ RoundEndInFlight
    /\ round.status = "active"
    /\ roundEndSyncs[1].roundNumber < round.roundNumber
    /\ out # <<>>
    /\ out[1].ev = "cell_updated"

\* The events of a handler other than the activity-feed entries.
NamedEvents(o) == SelectSeq(o, LAMBDA e : e.ev # "activity_feed")

\* The event names of a sequence of events.
EventNames(o) == [k \in DOMAIN o |-> o[k].ev]

\* C21: a successful capture emits, in this order, tile-updated to everyone,
\* energy-updated to the requester alone, cluster-bonus to everyone (only if the
\* bonus was triggered), rank-up to everyone (only if the requester's tier
\* changed) and leaderboard-updated to everyone, with nothing but activity-feed
\* entries of the same request in between; each event shows the state this
\* request left (its tile, its energy, the leaderboard after all its points), so
\* observers see state changes in the order the requests were processed.
C21_SuccessEventOrder ==
    [][\A s \in Sockets : (Capture(s) /\ grid' # grid) =>
          LET named == NamedEvents(out')
              me == users[getUserBySocket(users, s)]
              after == users'[UserIndex(users', me.id)]
              middle == SubSeq(named, 3, Len(named) - 1)
          IN /\ Len(named) >= 3
             /\ named[1].ev = "cell_updated"
             /\ named[1].to = Everyone
             /\ named[1].cell = grid'[named[1].cellId]
             /\ named[1].cell.ownerId = me.id
             /\ named[2].ev = "energy_update"
             /\ named[2].to = s
             /\ named[2].energy = energyMap'[me.id]
             /\ EventNames(middle) \in {<<>>, <<"cluster_bonus">>, <<"rank_up">>,
                                        <<"cluster_bonus", "rank_up">>}
             /\ \A k \in DOMAIN middle : middle[k].to = Everyone
             /\ EventsOf(out', "cluster_bonus") # {} =>
                   LET size == LargestGroup(grid', me.id)
                   IN size >= 5 /\ size % 5 = 0
             /\ EventsOf(out', "rank_up") # {} => after.rank # me.rank
             /\ named[Len(named)].ev = "leaderboard_update"
             /\ named[Len(named)].to = Everyone
             /\ named[Len(named)].leaderboard = getLeaderboard(users', 10)
             /\ out'[1] = named[1]
             /\ out'[2] = named[2]
             /\ out'[Len(out')] = named[Len(named)]]_vars

\* C21 witness: a capture that completed a cluster of five has emitted its
\* tile-updated, energy-updated, cluster-bonus and leaderboard-updated events,
\* and the leaderboard shows the bonus point.
C21_Witness ==
    /\ EventNames(NamedEvents(out))
          = <<"cell_updated", "energy_update", "cluster_bonus", "leaderboard_update">>
    /\ out[Len(out)].leaderboard = getLeaderboard(users, 10)
    /\ \E i \in DOMAIN users :
          /\ users[i].socketId = out[2].to
          /\ users[i].roundCaptures = 6

\* C21 second witness: a capture that crossed a tier boundary has emitted its
\* rank-up notice between the energy update and the leaderboard.
C21_RankUpWitness ==
    EventNames(NamedEvents(out))
        = <<"cell_updated", "energy_update", "rank_up", "leaderboard_update">>

\* No connection or disconnection handler is waiting for the durable store.
Quiescent == \A s \in Sockets : conn[s].phase \in {"idle", "ready", "closed"}

\* The participant records bound to a connection that is closed.
OrphanUsers == {i \in DOMAIN users : ~conn[users[i].socketId].open}

\* C22: once every pending handler has finished, every participant record is
\* bound to a connection that is still open, and every energy record belongs to
\* such a participant, whatever the interleaving of connects, disconnects and
\* durable-store responses.
C22_NoRecordForClosedConnection ==
    Quiescent =>
        /\ OrphanUsers = {}
        /\ \A u \in DOMAIN energyMap :
              \E i \in DOMAIN users : users[i].id = u /\ conn[users[i].socketId].open

\* What holds: the disconnect handler of a connection that found its participant
\* removes that participant's record.
C22_FlushRemovesParticipant ==
    [][\A s \in Sockets : FlushReturns(s) =>
          /\ UserIndex(users', conn[s].pendingId) = 0
          /\ conn[s].pendingId \notin DOMAIN energyMap']_vars

\* C22 witness: a connection closed while its registration was awaiting the
\* store; the registration has finished since, no handler is pending, and the
\* participant and its energy record are still there.
C22_Witness ==
    /\ Quiescent
    /\ \E s \in Sockets :
          /\ ~conn[s].open
          /\ conn[s].phase = "ready"
          /\ \E i \in DOMAIN users :
                users[i].socketId = s /\ users[i].id \in DOMAIN energyMap

\* The in-memory state a durable-store outcome must not decide, other than the
\* energy record handleConnection adds.
PlayState == <<grid, users, round, requests>>

\* A step in which registerUser's SELECT threw although the row exists.
LookupFailed(s) ==
    LookupReturns(s) /\ conn[s].username \in DOMAIN db /\ conn'[s].phase = "insert"

\* The step made a fresh participant for socket s and nothing else.
FreshParticipant(s) ==
    /\ Len(users') = Len(users) + 1
    /\ SubSeq(users', 1, Len(users)) = users
    /\ users'[Len(users')].socketId = s
    /\ users'[Len(users')].id = generateUserId(nextId)
    /\ users'[Len(users')].capturesCount = 0
    /\ users'[Len(users')].roundCaptures = 0
    /\ users'[Len(users')].rank = "Bronze"
    /\ UNCHANGED <<grid, energyMap, round>>

\* The settled writes of the listed kinds leave the play state as their success
\* leaves it: the player insert, the player sync at disconnect and at round end.
ListedWritesChangeNothing ==
    /\ \A s \in Sockets :
          /\ InsertReturns(s) =>
                /\ UNCHANGED PlayState
                /\ energyMap' = MapPut(energyMap, conn[s].pendingId,
                                       initUserEnergy(cfg.maxEnergy, cfg.regenRate, now))
          /\ Disconnect(s) => UNCHANGED PlayState /\ UNCHANGED energyMap
          /\ LookupFailed(s) => FreshParticipant(s)
    /\ EndRoundStep =>
          /\ UNCHANGED <<grid, users, energyMap, requests>>
          /\ round'.status = "ended"
          /\ round'.roundNumber = round.roundNumber

\* C23: no durable-store failure changes the in-memory state: after every write
\* that settles (the player insert, the last-seen update of a restored player,
\* the player sync at disconnect and at round end) the grid, the energy records,
\* the participants with their totals and the round are what a success leaves,
\* and a failed profile lookup yields a fresh participant.
C23_StoreFailureChangesNothing ==
    [][/\ ListedWritesChangeNothing
       /\ \A s \in Sockets :
             TouchReturns(s) =>
                /\ UNCHANGED PlayState
                /\ energyMap' = MapPut(energyMap, conn[s].pendingId,
                                       initUserEnergy(cfg.maxEnergy, cfg.regenRate, now))]_vars

\* What holds: the claim for the writes it lists and for the failed lookup.
C23_ListedWritesOnly == [][ListedWritesChangeNothing]_vars

\* C23 witness: the last-seen update of a restored player failed; the registry
\* holds the restored participant and a fresh one, both bound to the same open
\* connection, and the restored one has no energy record.
C23_Witness ==
    \E i \in DOMAIN users : \E j \in DOMAIN users :
        /\ i < j
        /\ users[i].socketId = users[j].socketId
        /\ conn[users[i].socketId].open
        /\ conn[users[i].socketId].phase = "ready"
        /\ users[i].id \in {db[n].id : n \in DOMAIN db}
        /\ users[j].capturesCount = 0
        /\ users[i].id \notin DOMAIN energyMap
        /\ users[j].id \in DOMAIN energyMap

\* ------------------------------------------------------ round-cycle driver
\* The server left to its timers: startServer, the round timer, the next-round
\* timer, and one client that connects and clicks; no explicit startRound or
\* endRound call and no destroy().  The clock moves to the next pending timer
\* until round LiveMaxRounds has started.
LiveScenario ==
    [DefaultConfig EXCEPT !.maxCapturesPerSecond = 2] @@
    [sockets |-> {"s1"},
     names |-> [s \in Sockets |-> {"NeonRunner7"}],
     clicks |-> [s \in Sockets |-> {<<14, 15>>}],
     steps |-> {},
     maxTicks |-> 0,
     maxExplicit |-> 0,
     dbOutcomes |-> {TRUE},
     db0 |-> <<>>]

\* ROUND_DURATION_MS = 2000 and a tile cooldown of 15000 ms, longer than a round
\* and the 10000 ms between rounds together.
QuickRoundsScenario ==
    [LiveScenario EXCEPT !.durationMs = 2000, !.cooldownMs = 15000]

LiveScenarios == {LiveScenario, QuickRoundsScenario}

LiveInit ==
    /\ cfg \in LiveScenarios
    /\ now = StartTime
    /\ ticks = 0
    /\ coreZones = {}
    /\ grid = initializeGrid({})
    /\ energyMap = <<>>
    /\ requests = <<>>
    /\ acceptLog = <<>>
    /\ ret = [op |-> "new"]
    /\ users = <<>>
    /\ colorIndex = 0
    /\ factionIndex = 0
    /\ nextId = 1
    /\ db = cfg.db0
    /\ conn = [s \in Sockets |-> [phase |-> "idle", open |-> FALSE,
                                  username |-> Null, pendingId |-> Null]]
    /\ round = [roundNumber |-> 0, status |-> "waiting", startedAt |-> 0,
                endsAt |-> 0, winner |-> <<>>]
    /\ roundTimer = 0
    /\ startTimers = <<>>
    /\ explicitCalls = 0
    /\ roundEndSyncs = <<>>
    /\ out = <<>>

\* Time passes up to the next pending timer.
LiveTick ==
    /\ ~TimerDue
    /\ round.roundNumber < LiveMaxRounds
    /\ \E t \in {u \in PendingTimers : u > now} :
          /\ \A u \in PendingTimers : t <= u
          /\ now' = t
    /\ out' = <<>>
    /\ UNCHANGED <<cfg, ticks, grid, coreZones, energyMap, requests, acceptLog, ret,
                   users, colorIndex, factionIndex, nextId, db, conn, round, roundTimer,
                   startTimers, explicitCalls, roundEndSyncs>>

LiveNext ==
    \/ StartServer
    \/ RoundTimerFires
    \/ CooldownTimerFires
    \/ RoundEndSynced
    \/ LiveTick
    \/ \E s \in Sockets : Connect(s)
    \/ \E s \in Sockets : LookupReturns(s)
    \/ \E s \in Sockets : InsertReturns(s)
    \/ \E s \in Sockets : Capture(s)

\* Time passes, and a due timer runs its callback.
SpecLive ==
    /\ LiveInit
    /\ [][LiveNext]_vars
    /\ WF_vars(LiveTick)
    /\ WF_vars(RoundTimerFires)
    /\ WF_vars(CooldownTimerFires)

\* Round n is active / has ended.
RoundIs(n, status) == round.roundNumber = n /\ round.status = status

\* C24: once the first round has started, with destroy() never called and timers
\* firing when due, every active round ends (its timer fires durationMs after
\* its start) and every ended round is followed by an active round whose number
\* is exactly one greater (started roundCooldownMs after the end).
C24_RoundsCycle ==
    /\ \A n \in 1..(LiveMaxRounds - 1) :
          /\ RoundIs(n, "active") ~> RoundIs(n, "ended")
          /\ RoundIs(n, "ended") ~> RoundIs(n + 1, "active")
    /\ [][/\ EndRoundStep =>
                /\ round.status = "active"
                /\ now = round.startedAt + cfg.durationMs
                /\ round'.roundNumber = round.roundNumber
          /\ (StartRoundStep /\ round.roundNumber >= 1) =>
                /\ round.status = "ended"
                /\ now = round.endsAt + cfg.roundCooldownMs
                /\ round'.roundNumber = round.roundNumber + 1]_vars

\* C24 witness: the second round is active, started by the next-round timer
\* roundCooldownMs after the first round's end, with a participant registered.
C24_Witness ==
    /\ RoundIs(2, "active")
    /\ round.startedAt = StartTime + cfg.durationMs + cfg.roundCooldownMs
    /\ startTimers = <<>>
    /\ roundTimer = round.endsAt
    /\ users # <<>>

\* --------------------------------------------------------- shutdown driver
\* gracefulShutdown on a running server: round 1 active, some participants
\* registered, each with a row in the players table that predates its captures.
\* ret holds how far the handler is: running (no signal yet), then flush (awaiting
\* syncAllToDB), closeDB (awaiting closeDB), closing (httpServer.close called and
\* the forced-exit timer set, due at ret.deadline), exited (process.exit).
ShutState(at, deadline, code) ==
    [op |-> "gracefulShutdown", at |-> at, deadline |-> deadline, code |-> code]

ShutInit ==
    /\ cfg = DefaultConfig
    /\ now = StartTime
    /\ ticks = 0
    /\ coreZones = {}
    /\ grid = initializeGrid({})
    /\ users \in BoardRegistries
    /\ energyMap = [u \in {users[i].id : i \in DOMAIN users} |->
                      initUserEnergy(cfg.maxEnergy, cfg.regenRate, StartTime)]
    /\ requests = <<>>
    /\ acceptLog = <<>>
    /\ ret = ShutState("running", 0, Null)
    /\ colorIndex = 0
    /\ factionIndex = 0
    /\ nextId = Len(users) + 1
    /\ db = [n \in {users[i].username : i \in DOMAIN users} |->
               LET u == users[CHOOSE i \in DOMAIN users : users[i].username = n]
               IN [PlayerRow(u) EXCEPT !.rank = "Bronze", !.total_captures = 0]]
    /\ conn = [s \in Sockets |-> [phase |-> "idle", open |-> FALSE,
                                  username |-> Null, pendingId |-> Null]]
    /\ round = [roundNumber |-> 1, status |-> "active", startedAt |-> StartTime,
                endsAt |-> StartTime + cfg.durationMs, winner |-> <<>>]
    /\ roundTimer = StartTime + cfg.durationMs
    /\ startTimers = <<>>
    /\ explicitCalls = 0
    /\ roundEndSyncs = <<>>
    /\ out = <<>>

\* SIGTERM or SIGINT: gracefulShutdown runs destroy() and awaits syncAllToDB().
ShutSignal ==
    /\ ret.at = "running"
    /\ ret' = ShutState("flush", 0, Null)
    /\ roundTimer' = 0
    /\ startTimers' = IF startTimers = <<>> THEN <<>>
                      ELSE SubSeq(startTimers, 1, Len(startTimers) - 1)
    /\ UNCHANGED <<cfg, now, ticks, grid, coreZones, energyMap, requests, acceptLog,
                   users, colorIndex, factionIndex, nextId, db, conn, round,
                   explicitCalls, roundEndSyncs, out>>

\* Every UPDATE of syncAllToDB has settled, with success or with an error that
\* syncPlayerToDB catches; gracefulShutdown takes the snapshot and awaits closeDB().
ShutFlushSettles ==
    /\ ret.at = "flush"
    /\ \E ok \in BOOLEAN : db' = IF ok THEN syncAllToDB(db, users) ELSE db
    /\ ret' = ShutState("closeDB", 0, Null)
    /\ UNCHANGED <<cfg, now, ticks, grid, coreZones, energyMap, requests, acceptLog,
                   users, colorIndex, factionIndex, nextId, conn, round, roundTimer,
                   startTimers, explicitCalls, roundEndSyncs, out>>

\* closeDB() has resolved: httpServer.close(...) is called and the forced-exit
\* timer is set.
ShutCloseDBSettles ==
    /\ ret.at = "closeDB"
    /\ ret' = ShutState("closing", now + ForcedExitMs, Null)
    /\ UNCHANGED <<cfg, now, ticks, grid, coreZones, energyMap, requests, acceptLog,
                   users, colorIndex, factionIndex, nextId, db, conn, round, roundTimer,
                   startTimers, explicitCalls, roundEndSyncs, out>>

\* The callback of httpServer.close runs: process.exit(0).
ShutServerClosed ==
    /\ ret.at = "closing"
    /\ ret' = ShutState("exited", ret.deadline, 0)
    /\ UNCHANGED <<cfg, now, ticks, grid, coreZones, energyMap, requests, acceptLog,
                   users, colorIndex, factionIndex, nextId, db, conn, round, roundTimer,
                   startTimers, explicitCalls, roundEndSyncs, out>>

\* The forced-exit timer fires: process.exit(1).
ShutDeadlineFires ==
    /\ ret.at = "closing"
    /\ ret.deadline <= now
    /\ ret' = ShutState("exited", ret.deadline, 1)
    /\ UNCHANGED <<cfg, now, ticks, grid, coreZones, energyMap, requests, acceptLog,
                   users, colorIndex, factionIndex, nextId, db, conn, round, roundTimer,
                   startTimers, explicitCalls, roundEndSyncs, out>>

\* Time passes: up to the forced-exit timer once it is set, by half its delay
\* before.
ShutTick ==
    /\ ret.at # "exited"
    /\ IF ret.at = "closing"
       THEN now < ret.deadline /\ now' = ret.deadline /\ ticks' = ticks
       ELSE ticks < ShutMaxTicks /\ now' = now + ForcedExitMs \div 2 /\ ticks' = ticks + 1
    /\ UNCHANGED <<cfg, grid, coreZones, energyMap, requests, acceptLog, ret,
                   users, colorIndex, factionIndex, nextId, db, conn, round, roundTimer,
                   startTimers, explicitCalls, roundEndSyncs, out>>

ShutNext ==
    \/ ShutSignal
    \/ ShutFlushSettles
    \/ ShutCloseDBSettles
    \/ ShutServerClosed
    \/ ShutDeadlineFires
    \/ ShutTick

\* Time passes, closeDB() resolves and a due timer fires; the durable store may
\* never answer the flush, and the server may never finish closing.
SpecShutdown ==
    /\ ShutInit
    /\ [][ShutNext]_vars
    /\ WF_vars(ShutTick)
    /\ WF_vars(ShutCloseDBSettles)
    /\ WF_vars(ShutDeadlineFires)

ShuttingDown == ret.at \in {"flush", "closeDB", "closing"}

\* C25: after a shutdown signal the process terminates within a bounded time
\* whether the flush of the participants succeeds, fails or never responds: the
\* forced-termination timer is pending from the moment shutdown begins, and
\* shutdown always leads to the exit.
C25_ShutdownTerminates ==
    /\ [](ShuttingDown => ret.deadline # 0)
    /\ ShuttingDown ~> (ret.at = "exited")

\* The second half of C25 alone: shutdown always leads to the exit.
C25_AlwaysExits == ShuttingDown ~> (ret.at = "exited")

\* What holds: once the flush has settled, with success or failure, the process
\* exits, at the latest ForcedExitMs after closeDB() resolved.
C25_ExitsOnceFlushSettled ==
    /\ (ret.at = "closeDB") ~> (ret.at = "exited")
    /\ [](ret.at = "exited" => now <= ret.deadline)

\* C25 witness: the flush has been awaited for ForcedExitMs and has not been
\* answered; no forced-exit timer is pending and the round timers are cancelled.
C25_Witness ==
    /\ ret.at = "flush"
    /\ ret.deadline = 0
    /\ now >= StartTime + ForcedExitMs
    /\ users # <<>>
    /\ PendingTimers = {}

\* A capture request of socket s that passes the energy stage and names an id
\* that is no tile of the grid.
NamesNoTile(s) ==
    LET i == getUserBySocket(users, s) IN
    /\ Capture(s)
    /\ i # 0
    /\ round.status = "active"
    /\ ~RateFull(users[i].id)
    /\ ~EnergyShort(users[i].id)
    /\ out'[1].cellId \notin DOMAIN grid

\* C26: a capture request naming an id that is no tile of the grid is rejected to
\* the requester only, with nothing broadcast; it changes no tile and no
\* participant's capture totals, rank or streak, and the energy cost deducted at
\* the energy stage is not given back.
C26_InvalidTileRejected ==
    [][\A s \in Sockets : NamesNoTile(s) =>
          LET userId == users[getUserBySocket(users, s)].id IN
          /\ Len(out') = 1
          /\ out'[1].ev = "capture_rejected"
          /\ out'[1].to = s
          /\ out'[1].reason = "Invalid cell ID"
          /\ grid' = grid
          /\ Totals(users') = Totals(users)
          /\ energyMap'[userId].current = EnergyNow(userId) - cfg.captureCost
          /\ \A u \in DOMAIN energyMap \ {userId} : energyMap'[u] = energyMap[u]]_vars

\* C26 witness: a participant with full energy 100 asked for tile 100-15 of a
\* 100 x 100 grid; it was refused, owns nothing, has no capture, and its energy
\* is 95.
C26_Witness ==
    /\ Len(out) = 1
    /\ out[1].ev = "capture_rejected"
    /\ out[1].reason = "Invalid cell ID"
    /\ out[1].cellId[1] >= cfg.gridWidth
    /\ \E i \in DOMAIN users :
          /\ users[i].socketId = out[1].to
          /\ users[i].capturesCount = 0
          /\ Owned(grid, users[i].id) = {}
          /\ energyMap[users[i].id].current = cfg.maxEnergy - cfg.captureCost

\* ------------------------------------------------ C27: regeneration timestamp
\* A step of the EnergyService driver that is a getEnergy or consumeEnergy call.
EnergyAccess == ret'.op \in {"getEnergy", "consumeEnergy"}

\* The call of this step regenerated at least one whole unit for its participant.
RegeneratedWhole ==
    /\ ret'.userId \in DOMAIN energyMap
    /\ regenAmount(energyMap[ret'.userId], now) > 0

\* The call of this step is a consumeEnergy that succeeded.
ConsumedNow == ret'.op = "consumeEnergy" /\ ret'.success

\* C27: every getEnergy or consumeEnergy call leaves the participant's
\* lastRegenAt equal to the time of the call, whether or not the consumption
\* succeeded and whether or not a whole unit of energy was regenerated.
C27_AccessAdvancesTimestamp ==
    [][EnergyAccess => energyMap'[ret'.userId].lastRegenAt = now]_vars

\* C27, what the calls do: lastRegenAt becomes the time of the call when the
\* record is created by the call, when a whole unit was regenerated or when the
\* consumption succeeded, and is left as it was otherwise.
C27_TimestampAdvancesOnRegenOrSuccess ==
    [][EnergyAccess =>
          IF ret'.userId \notin DOMAIN energyMap \/ RegeneratedWhole \/ ConsumedNow
          THEN energyMap'[ret'.userId].lastRegenAt = now
          ELSE energyMap'[ret'.userId].lastRegenAt = energyMap[ret'.userId].lastRegenAt]_vars

\* C27 witness: a consumeEnergy call refused for lack of energy less than a
\* second after the last regeneration, the participant's lastRegenAt still
\* older than the time of the call.
C27_Witness ==
    /\ ret.op = "consumeEnergy"
    /\ ret.success = FALSE
    /\ ret.userId \in DOMAIN energyMap
    /\ energyMap[ret.userId].current < cfg.captureCost
    /\ energyMap[ret.userId].lastRegenAt < now

\* C27 witness for a read: a getEnergy call after which lastRegenAt is older
\* than the time of the call.
C27_ReadWitness ==
    /\ ret.op = "getEnergy"
    /\ energyMap[ret.userId].lastRegenAt < now

\* ------------------------------------------------ C28: regeneration formula
\* floor(elapsedSeconds * regenRate) for participant u at the time of the call,
\* the elapsed time counted from lastRegenAt.
WholeUnits(u) == ((now - energyMap[u].lastRegenAt) * energyMap[u].regenRate) \div 1000

\* The current energy of participant u once regeneration is applied.
Regenerated(u) ==
    IF WholeUnits(u) > 0
    THEN Min(energyMap[u].max, energyMap[u].current + WholeUnits(u))
    ELSE energyMap[u].current

C28_CapWitness ==
    /\ ret.op = "getEnergy"
    /\ now > StartTime
    /\ energyMap[ret.userId].current = energyMap[ret.userId].max
    /\ energyMap[ret.userId].lastRegenAt = now

\* ----------------------------------------------- generateCoreZones driver
\* The GridService constructor and resetGrid, one iteration of the while loop of
\* generateCoreZones per step.  coreZones is the set placed so far, ret.at the
\* position of the call, and Math.random() is i / cfg.randomSteps for an
\* integer i.

\* GRID_WIDTH = GRID_HEIGHT = 10, every tile of the placement band a candidate.
SmallGridConfig ==
    [DefaultConfig EXCEPT !.gridWidth = 10, !.gridHeight = 10]
        @@ [randomSteps |-> 10 - 2 * CoreMargin(10, 10)]

\* The default 100 x 100 grid, Math.random() drawn from ZoneDraws values.
DefaultGridConfig == DefaultConfig @@ [randomSteps |-> ZoneDraws]

ZoneConfigs == {SmallGridConfig, DefaultGridConfig}

\* margin + Math.floor(Math.random() * (size - 2 * margin)) for Math.random() = i / steps.
ZoneCoordinate(i, steps, size, margin) == margin + (i * (size - 2 * margin)) \div steps

\* The tooClose loop of generateCoreZones.
tooClose(c, placed) == \E e \in placed : ManhattanDist(c, e) < MinCoreDist

\* The tiles of the window that a grid of w x h has, core is the set of core zones.
ZoneGrid(core, w, h) ==
    [c \in {k \in Cells : k[1] < w /\ k[2] < h} |->
        [ownerId |-> Null, color |-> Null, lastCapturedAt |-> 0, isCore |-> c \in core]]

\* initializeGrid up to the call of generateCoreZones.
ZoneInit ==
    /\ cfg \in ZoneConfigs
    /\ now = StartTime
    /\ ticks = 0
    /\ coreZones = {}
    /\ grid = ZoneGrid({}, cfg.gridWidth, cfg.gridHeight)
    /\ energyMap = <<>>
    /\ requests = <<>>
    /\ acceptLog = <<>>
    /\ ret = [op |-> "initializeGrid", at |-> "placing"]
    /\ NoHandlerState

\* One iteration of the while loop: a candidate is drawn, and placed when it is
\* not too close to a placed zone and not placed already.
ZoneCandidate ==
    /\ ret.at = "placing"
    /\ Cardinality(coreZones) < NUM_CORE_ZONES
    /\ \E i \in 0..(cfg.randomSteps - 1), j \in 0..(cfg.randomSteps - 1) :
          LET margin == CoreMargin(cfg.gridWidth, cfg.gridHeight)
              c == <<ZoneCoordinate(i, cfg.randomSteps, cfg.gridWidth, margin),
                     ZoneCoordinate(j, cfg.randomSteps, cfg.gridHeight, margin)>>
          IN IF ~tooClose(c, coreZones) /\ c \notin coreZones
             THEN /\ coreZones' = coreZones \cup {c}
                  /\ grid' = ZoneGrid(coreZones', cfg.gridWidth, cfg.gridHeight)
             ELSE UNCHANGED <<coreZones, grid>>
    /\ UNCHANGED <<cfg, now, ticks, energyMap, requests, acceptLog, ret, handlerVars>>

\* The while condition is false: generateCoreZones and initializeGrid return.
ZoneLoopExit ==
    /\ ret.at = "placing"
    /\ ~(Cardinality(coreZones) < NUM_CORE_ZONES)
    /\ ret' = [ret EXCEPT !.at = "returned"]
    /\ UNCHANGED <<cfg, now, ticks, grid, coreZones, energyMap, requests, acceptLog,
                   handlerVars>>

\* resetGrid: initializeGrid again, up to the call of generateCoreZones.
ZoneResetGrid ==
    /\ ret.at = "returned"
    /\ coreZones' = {}
    /\ grid' = ZoneGrid({}, cfg.gridWidth, cfg.gridHeight)
    /\ ret' = [op |-> "resetGrid", at |-> "placing"]
    /\ UNCHANGED <<cfg, now, ticks, energyMap, requests, acceptLog, handlerVars>>

ZoneNext == ZoneCandidate \/ ZoneLoopExit \/ ZoneResetGrid

\* A candidate that can be placed is eventually drawn, and a loop whose
\* condition is false is left; nothing makes resetGrid be called.
SpecZones ==
    ZoneInit /\ [][ZoneNext]_vars /\ WF_vars(ZoneCandidate) /\ WF_vars(ZoneLoopExit)

\* ------------------------------------------------ C29: core-zone placement
\* Every core zone is at least floor(0.15 * min(width, height)) tiles from
\* every edge of the grid.
ZonesOffEdges ==
    LET m == (15 * Min(cfg.gridWidth, cfg.gridHeight)) \div 100 IN
    \A z \in coreZones :
        /\ z[1] >= m /\ cfg.gridWidth - 1 - z[1] >= m
        /\ z[2] >= m /\ cfg.gridHeight - 1 - z[2] >= m

\* Every two core zones are at Manhattan distance 10 or more.
ZonesApart ==
    \A a \in coreZones, b \in coreZones :
        a # b => Abs(a[1] - b[1]) + Abs(a[2] - b[2]) >= 10

\* C29: for every configured width and height, grid initialization and every
\* reset terminate, and when they have, NUM_CORE_ZONES core zones are placed,
\* each at least floor(0.15 * min(width, height)) tiles from every edge and
\* every two at Manhattan distance 10 or more.
C29_CoreZonesPlaced ==
    /\ (ret.at = "placing") ~> (ret.at = "returned")
    /\ [](ret.at = "returned" =>
            /\ Cardinality(coreZones) = NUM_CORE_ZONES
            /\ ZonesOffEdges
            /\ ZonesApart)

\* C29, termination alone.
C29_PlacementTerminates == (ret.at = "placing") ~> (ret.at = "returned")

\* C29, what holds in every grid: the zones placed so far are off the edges
\* and apart, and a call that has returned has placed NUM_CORE_ZONES zones.
C29_PlacedZonesValid ==
    /\ ZonesOffEdges
    /\ ZonesApart
    /\ Cardinality(coreZones) <= NUM_CORE_ZONES
    /\ ret.at = "returned" => Cardinality(coreZones) = NUM_CORE_ZONES

\* C29, what holds in the default 100 x 100 grid: initialization and every
\* reset terminate.
C29_DefaultGridTerminates ==
    (cfg.gridWidth = 100 /\ ret.at = "placing") ~> (ret.at = "returned")

\* No tile of the placement band can be placed any more.
NoCandidateLeft ==
    LET m == CoreMargin(cfg.gridWidth, cfg.gridHeight) IN
    \A x \in m..(cfg.gridWidth - m - 1), y \in m..(cfg.gridHeight - m - 1) :
        tooClose(<<x, y>>, coreZones) \/ <<x, y>> \in coreZones

\* C29 witness: in a 10 x 10 grid the loop is still running with two zones
\* placed and no tile of the band left that could be placed.
C29_Witness ==
    /\ cfg.gridWidth = 10
    /\ ret.at = "placing"
    /\ Cardinality(coreZones) = 2
    /\ NoCandidateLeft

\* C29 witness for the default grid: a reset has returned with 8 zones placed.
C29_ReturnedWitness ==
    /\ cfg.gridWidth = 100
    /\ ret.op = "resetGrid"
    /\ ret.at = "returned"
    /\ Cardinality(coreZones) = NUM_CORE_ZONES

\* ---------------------------------------------- findLargestCluster driver
\* findLargestCluster applied to every assignment of owners to the tiles of a
\* block three tiles wide, filled row by row; the rest of the grid is unowned.
ScanCells == {<<13 + ((i - 1) % 3), 15 + ((i - 1) \div 3)>> : i \in 1..ScanMaxCells}

ScanOwners == {generateUserId(1), generateUserId(2)}

\* The identities asked about: the owners and one that owns nothing.
ScanIdentities == ScanOwners \cup {generateUserId(3)}

ScanCell(owner) ==
    [ownerId |-> owner,
     color |-> IF owner = Null THEN Null ELSE Palette[1],
     lastCapturedAt |-> IF owner = Null THEN 0 ELSE StartTime,
     isCore |-> FALSE]

ScanInit ==
    /\ cfg = DefaultConfig
    /\ now = StartTime
    /\ ticks = 0
    /\ coreZones = {}
    /\ \E owner \in [ScanCells -> ScanOwners \cup {Null}] :
          grid = [c \in ScanCells |-> ScanCell(owner[c])]
    /\ energyMap = <<>>
    /\ requests = <<>>
    /\ acceptLog = <<>>
    /\ ret = [op |-> "new"]
    /\ NoHandlerState

ScanFindLargestCluster ==
    \E userId \in ScanIdentities :
        LET r == findLargestCluster(grid, userId) IN
        /\ ret' = [op |-> "findLargestCluster", userId |-> userId,
                   size |-> r.size, cells |-> r.cells]
        /\ UNCHANGED <<cfg, now, ticks, grid, coreZones, energyMap, requests, acceptLog,
                       handlerVars>>

ScanNext == ScanFindLargestCluster

SpecScan == ScanInit /\ [][ScanNext]_vars

\* ------------------------------------------------ C30: largest cluster
\* The tiles identity userId owns.
TilesOf(userId) == {c \in DOMAIN grid : grid[c].ownerId = userId}

\* The tiles of own joined to c by a chain of tiles of own, each at distance 1
\* from the next.
ComponentOf(own, c) == GroupOf(own, {c}, Cardinality(own))

\* C30: findLargestCluster(ownerId) returns the size and the members of a
\* 4-connected component of the tiles ownerId owns that no other component of
\* them exceeds in size, and size 0 with no member when ownerId owns no tile;
\* every member is owned by ownerId, and every two members are joined through
\* members that are neighbours.
C30_LargestCluster ==
    ret.op = "findLargestCluster" =>
        LET own == TilesOf(ret.userId) IN
        /\ ret.size = Cardinality(ret.cells)
        /\ ret.cells \subseteq own
        /\ own = {} => ret.size = 0 /\ ret.cells = {}
        /\ own # {} => ret.size >= 1
        /\ \A c \in ret.cells :
              /\ ComponentOf(ret.cells, c) = ret.cells
              /\ ComponentOf(own, c) = ret.cells
        /\ \A c \in own : Cardinality(ComponentOf(own, c)) <= ret.size
        /\ ret.size = LargestGroup(grid, ret.userId)

\* C30 witness: the identity owns a component of one tile that the iteration
\* meets first and a larger one met later, and the larger one was returned,
\* while another identity owns tiles too.
C30_Witness ==
    /\ ret.op = "findLargestCluster"
    /\ ret.size >= 2
    /\ \E c \in TilesOf(ret.userId) \ ret.cells :
          /\ ComponentOf(TilesOf(ret.userId), c) = {c}
          /\ \A d \in ret.cells : IterBefore(c, d)
    /\ \E other \in ScanOwners \ {ret.userId} : TilesOf(other) # {}

\* C30 witness for an identity that owns nothing while others do: size 0 and
\* no member.
C30_EmptyWitness ==
    /\ ret.op = "findLargestCluster"
    /\ TilesOf(ret.userId) = {}
    /\ \E c \in DOMAIN grid : grid[c].ownerId # Null
    /\ ret.size = 0
    /\ ret.cells = {}

\* ------------------------------------------------------- snapshot driver
\* Calls of captureCell, resetGrid, exportSnapshot and loadSnapshot on a
\* GridService.  ret holds the GridSnapshot last exported (ret.snapshot), whether
\* the Cell objects of its Map are the ones of this.grid (ret.shared: the maps
\* are copied with new Map(...), the Cell objects are not), and the grid and
\* core zones at the time of the export (ret.taken).

\* GridService.exportSnapshot at Date.now() = t.
exportSnapshot(g, t) ==
    [cells |-> g,
     timestamp |-> t,
     totalCells |-> Cardinality(DOMAIN g),
     claimedCells |-> Cardinality({c \in DOMAIN g : g[c].ownerId # Null})]

\* GridService.loadSnapshot: the new this.grid.
loadSnapshot(snapshot) == snapshot.cells

\* GridService.getCoreZones.
getCoreZones(zones) == zones

SnapInit ==
    /\ cfg = DefaultConfig
    /\ now = StartTime
    /\ ticks = 0
    /\ \E core \in CorePlacements(cfg.gridWidth, cfg.gridHeight) :
          /\ coreZones = core
          /\ grid = initializeGrid(core)
    /\ energyMap = <<>>
    /\ requests = <<>>
    /\ acceptLog = <<>>
    /\ ret = [op |-> "new", has |-> FALSE, shared |-> FALSE]
    /\ NoHandlerState

\* captureCell assigns the fields of the Cell object of this.grid; a snapshot
\* whose Map holds the same object shows the assignment.
SnapCaptureCell ==
    \E c \in GridTestCells, u \in GridUsers :
        LET r == captureCell(grid, c, u, GridColor(u), cfg.cooldownMs, now) IN
        /\ r.success
        /\ grid' = r.grid
        /\ ret' = IF ret.shared
                  THEN [ret EXCEPT !.op = "captureCell", !.snapshot.cells = r.grid]
                  ELSE [ret EXCEPT !.op = "captureCell"]
        /\ UNCHANGED <<cfg, now, ticks, coreZones, energyMap, requests, acceptLog, handlerVars>>

\* resetGrid: this.grid is cleared and filled with new Cell objects, and the core
\* zones are drawn again.
SnapResetGrid ==
    /\ \E core \in CorePlacements(cfg.gridWidth, cfg.gridHeight) :
          /\ coreZones' = core
          /\ grid' = initializeGrid(core)
    /\ ret' = [ret EXCEPT !.op = "resetGrid", !.shared = FALSE]
    /\ UNCHANGED <<cfg, now, ticks, energyMap, requests, acceptLog, handlerVars>>

SnapExportSnapshot ==
    /\ ret' = [op |-> "exportSnapshot", has |-> TRUE, shared |-> TRUE,
               snapshot |-> exportSnapshot(grid, now),
               taken |-> [grid |-> grid, coreZones |-> getCoreZones(coreZones)]]
    /\ UNCHANGED <<cfg, now, ticks, grid, coreZones, energyMap, requests, acceptLog,
                   handlerVars>>

\* loadSnapshot(snapshot) with the snapshot last exported: this.grid becomes a
\* new Map of the snapshot's Cell objects; this.coreZones is not assigned.
SnapLoadSnapshot ==
    /\ ret.has
    /\ grid' = loadSnapshot(ret.snapshot)
    /\ ret' = [ret EXCEPT !.op = "loadSnapshot", !.shared = TRUE]
    /\ UNCHANGED <<cfg, now, ticks, coreZones, energyMap, requests, acceptLog, handlerVars>>

SnapTick ==
    /\ ticks < SnapMaxTicks
    /\ now' = now + cfg.cooldownMs
    /\ ticks' = ticks + 1
    /\ ret' = [ret EXCEPT !.op = "tick"]
    /\ UNCHANGED <<cfg, grid, coreZones, energyMap, requests, acceptLog, handlerVars>>

SnapNext ==
    \/ SnapCaptureCell \/ SnapResetGrid \/ SnapExportSnapshot \/ SnapLoadSnapshot
    \/ SnapTick

SpecSnap == SnapInit /\ [][SnapNext]_vars

\* ------------------------------------------------ C31: snapshot round trip
\* C31: after a snapshot is taken, any captures and resets are made and the
\* snapshot is loaded, every tile's owner, color, last-captured time and core
\* flag and the reported core-zone list equal their values at the time of the
\* snapshot; and the snapshot's claimedCells is the number of tiles that had an
\* owner at that time.
C31_LoadRestoresSnapshot ==
    /\ ret.has =>
          ret.snapshot.claimedCells =
              Cardinality({c \in DOMAIN ret.taken.grid : ret.taken.grid[c].ownerId # Null})
    /\ ret.op = "loadSnapshot" =>
          /\ grid = ret.taken.grid
          /\ getCoreZones(coreZones) = ret.taken.coreZones

\* C31, what holds: claimedCells is the number of tiles owned at the time of
\* the export, and a load directly after the export leaves the grid and the
\* core-zone list as they were at the export.
C31_ClaimedCountAndImmediateLoad ==
    /\ [](ret.has =>
            ret.snapshot.claimedCells =
                Cardinality({c \in DOMAIN ret.taken.grid : ret.taken.grid[c].ownerId # Null}))
    /\ [][(ret.op = "exportSnapshot" /\ ret'.op = "loadSnapshot") =>
            /\ grid' = ret.taken.grid
            /\ coreZones' = ret.taken.coreZones]_vars

\* C31, what a load does: the grid becomes the cells the snapshot's Map holds at
\* the time of the load, and the core-zone list is left as it is.
C31_LoadTakesSnapshotCells ==
    [][ret'.op = "loadSnapshot" =>
          /\ grid' = ret.snapshot.cells
          /\ coreZones' = coreZones]_vars

\* C31 witness: a snapshot was loaded after a capture made since the export,
\* and the captured tile has the owner of that capture, not the one it had when
\* the snapshot was taken.
C31_Witness ==
    /\ ret.op = "loadSnapshot"
    /\ \E c \in DOMAIN grid : grid[c].ownerId # ret.taken.grid[c].ownerId

\* C31 witness for a reset: a snapshot was loaded after a reset, every tile
\* equals its value at the time of the snapshot, and the core-zone list is the
\* one the reset drew.
C31_ResetWitness ==
    /\ ret.op = "loadSnapshot"
    /\ grid = ret.taken.grid
    /\ coreZones # ret.taken.coreZones

\* ------------------------------------------------ C32: RateLimiter.cleanup
\* The timestamps of a list recorded less than 60000 ms before the present.
Recent(timestamps) == SelectSeq(timestamps, LAMBDA ts : now - ts < 60000)

\* The calls of identity u that returned true less than windowMs before the
\* present, whatever cleanup has removed since.
AcceptedInWindow(u) ==
    IF u \in DOMAIN acceptLog
    THEN Cardinality({i \in 1..Len(acceptLog[u]) :
                         now - acceptLog[u][i] < cfg.rateLimitWindowMs})
    ELSE 0

C32_RefusedAfterCleanup ==
    /\ ret.op = "isAllowed"
    /\ ret.allowed = FALSE
    /\ \E u \in DOMAIN acceptLog : u \notin DOMAIN requests

\* ------------------------------------------------ C33: capture totals
\* The round total of every participant lies between 0 and its lifetime total.
RoundWithinLifetime ==
    \A i \in DOMAIN users :
        0 <= users[i].roundCaptures /\ users[i].roundCaptures <= users[i].capturesCount

\* No participant that stays in the registry over the step has its lifetime
\* total decreased.
LifetimeKept ==
    \A i \in DOMAIN users : \A j \in DOMAIN users' :
        users'[j].id = users[i].id => users'[j].capturesCount >= users[i].capturesCount

\* C33: in every reachable state every participant's round total is between 0
\* and its lifetime total, and the lifetime total of a participant never
\* decreases while it is connected; a round start resets the round totals only.
C33_TotalsOrdered ==
    /\ []RoundWithinLifetime
    /\ [][LifetimeKept]_vars
    /\ [][StartRoundStep =>
            \A i \in DOMAIN users : \A j \in DOMAIN users' :
                users'[j].id = users[i].id =>
                    /\ users'[j].roundCaptures = 0
                    /\ users'[j].capturesCount = users[i].capturesCount]_vars

\* C33, the part on the order of the totals alone.
C33_RoundWithinLifetime == RoundWithinLifetime

\* C33, the part on the lifetime total alone.
C33_LifetimeNeverDecreases == [][LifetimeKept]_vars

\* C33 witness: in round 1, with both connections open, a participant owns a
\* tile it captured in this round while its lifetime total is the one its row
\* had when the server started and its round total is 0.
C33_Witness ==
    /\ round.roundNumber = 1
    /\ \A s \in cfg.sockets : conn[s].open
    /\ \E i \in DOMAIN users :
          /\ Owned(grid, users[i].id) # {}
          /\ users[i].username \in DOMAIN cfg.db0
          /\ users[i].capturesCount = cfg.db0[users[i].username].total_captures
          /\ users[i].roundCaptures = 0

\* ------------------------------------------------ C34: energy updates
\* A capture request of socket s from which the energy stage deducts the cost:
\* the participant is known, the round is active, the rate guard admits it and
\* the energy suffices.
DeductsEnergy(s) ==
    LET i == getUserBySocket(users, s) IN
    /\ Capture(s)
    /\ i # 0
    /\ round.status = "active"
    /\ ~RateFull(users[i].id)
    /\ ~EnergyShort(users[i].id)
    /\ energyMap'[users[i].id].current = EnergyNow(users[i].id) - cfg.captureCost

\* The energy_update events of a handler's output sent to socket s.
EnergyUpdatesTo(o, s) == {k \in DOMAIN o : o[k].ev = "energy_update" /\ o[k].to = s}

C34_SuccessWitness ==
    /\ Len(out) >= 2
    /\ out[1].ev = "cell_updated"
    /\ out[2].ev = "energy_update"
    /\ \E i \in DOMAIN users :
          /\ users[i].socketId = out[2].to
          /\ out[2].energy = energyMap[users[i].id]
          /\ out[2].energy.current = cfg.maxEnergy - cfg.captureCost

\* --------------------------------------------- round persistence driver
\* A GameRoundService driven by its timers, with the queries of
\* persistRoundStart and persistRoundEnd.  In this driver db is the game_rounds
\* table, a sequence whose row of id k is db[k]; ret.dbRoundId is the field
\* dbRoundId (0 for null) and ret.inserts the round numbers whose INSERT has not
\* returned.  A row's endedFor is the number of the round whose end was last
\* written to it (0 when none).

\* INSERT INTO game_rounds (round_number, ..., status) VALUES (n, ..., 'active').
RoundRow(n) == [round_number |-> n, status |-> "active", endedFor |-> 0]

\* persistRoundEnd: UPDATE game_rounds SET status = 'ended', ... WHERE id = id,
\* sent while round number n is ending.
persistRoundEnd(table, id, n) ==
    IF id = 0 \/ id \notin DOMAIN table THEN table
    ELSE [table EXCEPT ![id].status = "ended", ![id].endedFor = n]

PersistInit ==
    /\ cfg = DefaultConfig
    /\ now = StartTime
    /\ ticks = 0
    /\ coreZones = {}
    /\ grid = initializeGrid({})
    /\ energyMap = <<>>
    /\ requests = <<>>
    /\ acceptLog = <<>>
    /\ ret = [op |-> "new", dbRoundId |-> 0, inserts |-> {}]
    /\ users = <<>>
    /\ colorIndex = 0
    /\ factionIndex = 0
    /\ nextId = 1
    /\ db = <<>>
    /\ conn = [s \in Sockets |-> [phase |-> "idle", open |-> FALSE,
                                  username |-> Null, pendingId |-> Null]]
    /\ round = [roundNumber |-> 0, status |-> "waiting", startedAt |-> 0,
                endsAt |-> 0, winner |-> <<>>]
    /\ roundTimer = 0
    /\ startTimers = <<>>
    /\ explicitCalls = 0
    /\ roundEndSyncs = <<>>
    /\ out = <<>>

\* startRound, called by startServer or by the cooldown timer: the INSERT of
\* persistRoundStart is sent, dbRoundId is left as it is.
PersistStartRound ==
    /\ round.status \in {"waiting", "ended"}
    /\ round.status = "ended" => startTimers # <<>>
    /\ round.roundNumber < PersistMaxRounds
    /\ now' = IF round.status = "ended" THEN startTimers[1] ELSE now
    /\ round' = startRoundState(round, cfg.durationMs, now')
    /\ roundTimer' = now' + cfg.durationMs
    /\ startTimers' = <<>>
    /\ ret' = [ret EXCEPT !.op = "startRound", !.inserts = @ \cup {round'.roundNumber}]
    /\ UNCHANGED <<cfg, ticks, grid, coreZones, energyMap, requests, acceptLog, users,
                   colorIndex, factionIndex, nextId, db, conn, explicitCalls,
                   roundEndSyncs, out>>

\* The INSERT of round n returns its row id, which is assigned to dbRoundId, or
\* throws, which is logged.
PersistInsertReturns ==
    /\ \E n \in ret.inserts, ok \in BOOLEAN :
          IF ok
          THEN /\ db' = Append(db, RoundRow(n))
               /\ ret' = [ret EXCEPT !.op = "insertReturned", !.inserts = @ \ {n},
                                     !.dbRoundId = Len(db) + 1]
          ELSE /\ db' = db
               /\ ret' = [ret EXCEPT !.op = "insertFailed", !.inserts = @ \ {n}]
    /\ UNCHANGED <<cfg, now, ticks, grid, coreZones, energyMap, requests, acceptLog, users,
                   colorIndex, factionIndex, nextId, conn, round, roundTimer, startTimers,
                   explicitCalls, roundEndSyncs, out>>

\* The round timer fires endRound: persistRoundEnd sends its UPDATE for the row
\* dbRoundId names at this moment, and the cooldown timer is set.
PersistEndRound ==
    /\ round.status = "active"
    /\ roundTimer # 0
    /\ now' = roundTimer
    /\ round' = endRoundState(round, <<>>)
    /\ roundTimer' = 0
    /\ startTimers' = <<now' + cfg.roundCooldownMs>>
    /\ db' = persistRoundEnd(db, ret.dbRoundId, round.roundNumber)
    /\ ret' = [ret EXCEPT !.op = "endRound"]
    /\ UNCHANGED <<cfg, ticks, grid, coreZones, energyMap, requests, acceptLog, users,
                   colorIndex, factionIndex, nextId, conn, explicitCalls, roundEndSyncs,
                   out>>

PersistNext == PersistStartRound \/ PersistInsertReturns \/ PersistEndRound

SpecPersist == PersistInit /\ [][PersistNext]_vars

\* ------------------------------------------------ C35: round-end record
\* The rows an end of round is written to in this step.
EndWrittenRows == {k \in DOMAIN db : db'[k] # db[k]}

\* C35: when round N ends, the round-end update is applied only to the row
\* created for round N, never to the row of another round, whatever the order
\* of the timers and the database responses, also when the INSERT of round N
\* failed or has not returned yet.
C35_EndUpdatesOwnRecord ==
    [][ret'.op = "endRound" =>
          \A k \in EndWrittenRows : db[k].round_number = round.roundNumber]_vars

\* C35, what holds: the update is applied to the row dbRoundId names when the
\* round ends, the row of the INSERT that returned last whatever its round, and
\* to no row when dbRoundId is null.
C35_EndUpdatesLastReturnedRow ==
    [][ret'.op = "endRound" =>
          /\ EndWrittenRows \subseteq {ret.dbRoundId}
          /\ ret.dbRoundId # 0 =>
                /\ db'[ret.dbRoundId].status = "ended"
                /\ db'[ret.dbRoundId].endedFor = round.roundNumber]_vars

\* C35 witness: round 2 has ended, no row was created for it, and the row of
\* round 1 says it was ended by round 2.
C35_Witness ==
    /\ round.roundNumber = 2
    /\ round.status = "ended"
    /\ ret.inserts = {}
    /\ \A k \in DOMAIN db : db[k].round_number # 2
    /\ \E k \in DOMAIN db : db[k].round_number = 1 /\ db[k].endedFor = 2

\* ------------------------------------------------ C36: streak
\* No participant that stays in the registry over the step has its streak
\* lowered.
StreakKept ==
    \A i \in DOMAIN users : \A j \in DOMAIN users' :
        users'[j].id = users[i].id => users'[j].streak >= users[i].streak

\* What a capture request of socket s does to the streaks: the requester's grows
\* by 1 on a capture without cluster bonus and by 2 on one with a cluster bonus,
\* and a rejected request changes no streak; no other participant's changes.
StreakStep(s) ==
    LET i == getUserBySocket(users, s) IN
    /\ Len(users') = Len(users)
    /\ \A j \in DOMAIN users :
          users'[j].streak =
              IF j = i /\ CapturedStep
              THEN users[j].streak + (IF EventsOf(out', "cluster_bonus") # {} THEN 2 ELSE 1)
              ELSE users[j].streak

\* C36: a participant's streak never decreases while it is connected, whatever
\* the capture outcome or round transition; it grows by exactly 1 on a
\* successful capture without cluster bonus, by exactly 2 on one with a cluster
\* bonus, and every rejected request leaves it unchanged.
C36_StreakGrowsOnly ==
    /\ [][StreakKept]_vars
    /\ [][\A s \in Sockets : Capture(s) => StreakStep(s)]_vars

\* C36, the part on capture requests alone.
C36_StreakPerCapture == [][\A s \in Sockets : Capture(s) => StreakStep(s)]_vars

\* C36, the part on round transitions alone: a round start and a round end
\* leave every streak as it is.
C36_RoundsKeepStreak ==
    [][(StartRoundStep \/ EndRoundStep) =>
          \A i \in DOMAIN users : \A j \in DOMAIN users' :
              users'[j].id = users[i].id => users'[j].streak = users[i].streak]_vars

\* C36 witness: with both connections open a participant owns a tile it captured
\* in round 1 and its streak is 0.
C36_Witness ==
    /\ round.roundNumber = 1
    /\ \A s \in cfg.sockets : conn[s].open
    /\ \E i \in DOMAIN users :
          /\ Owned(grid, users[i].id) # {}
          /\ users[i].streak = 0

\* C36 witness for the bonus: a capture with a cluster bonus after which the
\* requester's streak is 6, one more than the five tiles it captured.
C36_BonusWitness ==
    /\ out # <<>>
    /\ out[1].ev = "cell_updated"
    /\ EventsOf(out, "cluster_bonus") # {}
    /\ \E i \in DOMAIN users :
          /\ users[i].socketId = out[2].to
          /\ users[i].streak = 6

\* ------------------------------------------------ C37: rate window
\* The recorded timestamps of an identity that lie in its rate window at the
\* present instant.
InWindow(reqs, userId) ==
    IF userId \in DOMAIN reqs
    THEN SelectSeq(reqs[userId], LAMBDA ts : now - ts < cfg.rateLimitWindowMs)
    ELSE <<>>

\* C37: a capture request the rate guard accepts adds its timestamp to the
\* identity's window whatever a later stage decides (not enough energy,
\* cooldown, invalid tile, or success), and a request rejected for an unknown
\* identity, an inactive round or the rate limit adds no timestamp to any
\* window.
C37_AcceptedRequestsCount ==
    [][\A s \in Sockets : Capture(s) =>
          LET i == getUserBySocket(users, s) IN
          IF i = 0 \/ round.status # "active" \/ RateFull(users[i].id)
          THEN requests' = requests
          ELSE /\ out'[1].ev # "rate_limited"
               /\ users[i].id \in DOMAIN requests'
               /\ requests'[users[i].id] = Append(InWindow(requests, users[i].id), now)
               /\ \A u \in DOMAIN requests' \ {users[i].id} :
                     u \in DOMAIN requests /\ requests'[u] = requests[u]]_vars

\* A request was rejected with the given reason and its timestamp is the last
\* of the requester's window.
RejectedButCounted(reason) ==
    /\ Len(out) >= 1
    /\ out[1].ev = "capture_rejected"
    /\ out[1].reason = reason
    /\ \E i \in DOMAIN users :
          /\ users[i].socketId = out[1].to
          /\ users[i].id \in DOMAIN requests
          /\ requests[users[i].id][Len(requests[users[i].id])] = now

\* C37 witness: a request rejected for the tile's cooldown whose timestamp
\* filled the requester's window: it is the last of maxCapturesPerSecond
\* timestamps recorded in the window.
C37_Witness ==
    /\ RejectedButCounted("Cell on cooldown")
    /\ \E i \in DOMAIN users :
          /\ users[i].socketId = out[1].to
          /\ Len(InWindow(requests, users[i].id)) = cfg.maxCapturesPerSecond

\* C37 witnesses for the other late rejections.
C37_EnergyWitness == RejectedButCounted("Not enough energy!")

C37_InvalidTileWitness == RejectedButCounted("Invalid cell ID")

\* C37 witness for a rate-limited request: the requester's window holds
\* maxCapturesPerSecond timestamps, those of the requests accepted before.
C37_RateLimitedWitness ==
    /\ Len(out) = 1
    /\ out[1].ev = "rate_limited"
    /\ \E i \in DOMAIN users :
          /\ users[i].socketId = out[1].to
          /\ Len(InWindow(requests, users[i].id)) = cfg.maxCapturesPerSecond

\* ------------------------------------------------ C38: cooldown and rounds
\* A capture request of socket s for tile c that reaches the grid stage.
ReachesGridFor(s, c) ==
    /\ ReachesGrid(s)
    /\ out'[1].cellId = c

\* C38: a round start clears every tile's cooldown: it leaves every tile
\* unowned with no capture time, so that a request reaching the grid for a tile
\* not captured since the round started succeeds, also when the tile was
\* captured less than cooldownMs earlier in the previous round.
C38_RoundStartClearsCooldown ==
    /\ [][StartRoundStep =>
            \A c \in DOMAIN grid' :
                grid'[c].lastCapturedAt = 0 /\ grid'[c].ownerId = Null]_vars
    /\ [][\A s \in Sockets : \A c \in DOMAIN grid :
            (ReachesGridFor(s, c) /\ grid[c].lastCapturedAt < round.startedAt) =>
                /\ CapturedStep
                /\ grid'[c].ownerId = users[getUserBySocket(users, s)].id
                /\ grid'[c].lastCapturedAt = now]_vars

\* C38 witness: in round 2, less than cooldownMs after the server started, the
\* only tile the participant clicks was captured by it again: its round total
\* is 1 and its lifetime total 2, the other capture being of round 1.
C38_Witness ==
    /\ round.roundNumber = 2
    /\ now - StartTime < cfg.cooldownMs
    /\ out # <<>>
    /\ out[1].ev = "cell_updated"
    /\ grid[out[1].cellId].lastCapturedAt = now
    /\ \E i \in DOMAIN users :
          /\ users[i].id = grid[out[1].cellId].ownerId
          /\ users[i].roundCaptures = 1
          /\ users[i].capturesCount = 2

\* C38 witness for the cooldown within a round: in that configuration a second
\* request for the tile in the same round is rejected for the cooldown.
C38_CooldownWitness ==
    /\ cfg.cooldownMs > cfg.durationMs + cfg.roundCooldownMs
    /\ round.roundNumber = 2
    /\ Len(out) = 1
    /\ out[1].ev = "capture_rejected"
    /\ out[1].reason = "Cell on cooldown"

\* ------------------------------------------------ C39: core zones
\* The tiles whose core flag is set.
FlaggedCore == {c \in DOMAIN grid : grid[c].isCore}

\* C39: in every reachable state the reported core-zone list is exactly the set
\* of tiles whose core flag is set and has no more than the configured number of
\* members, and it changes only at a grid reset, never through a capture or a
\* snapshot load.  (The grid of this driver is the modelled window; that a
\* reset places NUM_CORE_ZONES zones in the whole grid is C29_PlacedZonesValid.)
C39_CoreListIsFlaggedSet ==
    /\ [](getCoreZones(coreZones) = FlaggedCore)
    /\ [](Cardinality(getCoreZones(coreZones)) <= NUM_CORE_ZONES)
    /\ [][coreZones' # coreZones => ret'.op = "resetGrid"]_vars

\* C39, what holds: the list changes only at a reset, and a capture changes no
\* core flag.
C39_ListChangesAtResetOnly ==
    /\ [][coreZones' # coreZones => ret'.op = "resetGrid"]_vars
    /\ [][ret'.op = "captureCell" =>
            \A c \in DOMAIN grid : grid'[c].isCore = grid[c].isCore]_vars
    /\ [][ret'.op \in {"resetGrid", "captureCell", "exportSnapshot", "tick"} =>
            (getCoreZones(coreZones) = FlaggedCore
                => getCoreZones(coreZones') = {c \in DOMAIN grid' : grid'[c].isCore})]_vars

\* C39 witness: a snapshot taken before a reset was loaded after it; a tile of
\* the reported core-zone list has no core flag, or a flagged tile is not in the
\* list.
C39_Witness ==
    /\ ret.op = "loadSnapshot"
    /\ getCoreZones(coreZones) # FlaggedCore

\* ------------------------------------------------ C40: tile ownership
\* A step in which a socket closed, and one in which disconnectUser removed the
\* participant of a closed socket.
DisconnectStep == \E s \in Sockets : conn[s].open /\ ~conn'[s].open
RemovedStep == \E s \in Sockets : conn[s].phase = "flush" /\ conn'[s].phase = "closed"

\* The tiles whose owner differs after the step.
OwnerChanged == {c \in DOMAIN grid : c \notin DOMAIN grid' \/ grid'[c].ownerId # grid[c].ownerId}

\* C40: a tile's owner changes only through a successful capture, and then is
\* the id of a participant registered at that moment, or at the grid reset of a
\* round start, which leaves every tile unowned; a tile never becomes unowned
\* except at that reset; and a disconnect, like the removal of the participant
\* that follows it, leaves every tile (owner, color, last-captured time) as it
\* was.
C40_OwnerChangesByCapture ==
    /\ [][\A c \in OwnerChanged :
            \/ /\ StartRoundStep
               /\ \A k \in DOMAIN grid' : grid'[k].ownerId = Null
            \/ /\ CapturedStep
               /\ ~StartRoundStep
               /\ c \in DOMAIN grid'
               /\ grid'[c].ownerId # Null
               /\ UserIndex(users, grid'[c].ownerId) # 0
               /\ UserIndex(users', grid'[c].ownerId) # 0
               /\ out'[1].cell.ownerId = grid'[c].ownerId
               /\ Cardinality(OwnerChanged) = 1]_vars
    /\ [][\A c \in DOMAIN grid :
            (grid[c].ownerId # Null /\ c \in DOMAIN grid' /\ grid'[c].ownerId = Null)
                => StartRoundStep]_vars
    /\ [][(DisconnectStep \/ RemovedStep) => grid' = grid]_vars

\* C40 witness: a participant captured a tile and left; it is no longer
\* registered and the tile is still owned by its id, with its color and its
\* capture time, in the round of the capture.
C40_Witness ==
    /\ round.status = "active"
    /\ \E s \in Sockets :
          /\ conn[s].phase = "closed"
          /\ conn[s].pendingId # Null
          /\ UserIndex(users, conn[s].pendingId) = 0
          /\ \E c \in DOMAIN grid :
                /\ grid[c].ownerId = conn[s].pendingId
                /\ grid[c].color # Null
                /\ grid[c].lastCapturedAt # 0

\* C40 witness: a round start reset the grid after a capture; every tile is
\* unowned while a registered participant holds the points of an earlier round.
C40_ResetWitness ==
    /\ round.roundNumber >= 2
    /\ \A c \in DOMAIN grid : grid[c].ownerId = Null
    /\ \E i \in DOMAIN users : users[i].capturesCount > 0 /\ users[i].roundCaptures = 0

====
